---- MODULE Spec2Model ----
(***************************************************************************)
(* Iterated Prisoner's Dilemma: the adaptive agent (PowerfulAdaptiveAI),   *)
(* its analyzer (AdvancedStrategyAnalyzer), the scripted opponents         *)
(* (StrategicOpponentAI) of src/ai.py, and the match driver                *)
(* (IndustryGradeGame) of src/advanced_prisoners_dilemma.py.               *)
(*                                                                         *)
(* Numbers.  Python floats that are probabilities or rates are held in     *)
(* thousandths (0.85 is 850), except the Bayesian prior, which is held in  *)
(* millionths (0.5 is 500000) and truncated to a millionth when it is      *)
(* multiplied.  Ratios of counts (cooperation rates, pattern consistency)  *)
(* are kept exact as records [n |-> numerator, d |-> denominator] and      *)
(* compared by cross-multiplication.  A call of random.random() is a draw  *)
(* r in thousandths taken from Draws.                                      *)
(***************************************************************************)
EXTENDS Integers, Sequences, FiniteSets, TLC

(***************************************************************************)
(* Bounds of the model.                                                    *)
(***************************************************************************)
\* rounds of one match played by the model (the driver's round limit)
MaxRounds == 4
\* finished matches after which no further round is played
MaxMatches == 1
\* rounds of the match against the aggressive opponent that are explored
MatchRounds == 10
\* Cooperate moves of each player in the explored matches against the
\* aggressive opponent
MaxCoop == 1
\* single calls: every pair of histories up to this length is an input
MaxLen == 3
\* single calls: periodic histories up to this length are inputs as well
LongLen == 11

Moves == {"C", "D"}

\* outcomes of random.random(), in thousandths: at least one value between
\* any two thresholds the code compares a draw with
Draws == {0, 5, 50, 200, 350, 450, 550, 700, 850, 950, 999}

\* values a Python call can end with instead of returning a move
Raised == {"ZeroDivisionError", "IndexError"}

Min(a, b) == IF a < b THEN a ELSE b
Max(a, b) == IF a > b THEN a ELSE b
Abs(a) == IF a < 0 THEN 0 - a ELSE a

\* list.count(m)
Count(h, m) == Cardinality({i \in DOMAIN h : h[i] = m})
\* h[-k:]
Tail_(h, k) == SubSeq(h, Max(1, Len(h) - k + 1), Len(h))
\* h[-1]
LastOf(h) == h[Len(h)]

(***************************************************************************)
(* AdvancedStrategyAnalyzer                                                *)
(***************************************************************************)
available_strategies ==
    <<"minimax", "fuzzy", "tit_for_tat", "adaptive", "pattern_matcher", "bayesian">>

Strategies == {available_strategies[i] : i \in DOMAIN available_strategies}

\* AdvancedStrategyAnalyzer.__init__
AdvancedStrategyAnalyzer ==
    [ available_strategies |-> available_strategies,
      current_strategy     |-> "minimax",
      opponent_pattern     |-> << >>,
      strategy_performance |-> [s \in Strategies |-> [wins |-> 0, uses |-> 0]],
      analysis_accuracy    |-> 850,
      pattern_memory       |-> 15,
      confidence_threshold |-> 700 ]

\* the consistency with min(5, transitions) as the number of possible
\* transitions
calculate_pattern_consistency_five_possible(opp_history) ==
    IF Len(opp_history) < 3
    THEN [n |-> 1, d |-> 2]
    ELSE LET transitions == {<<opp_history[i], opp_history[i + 1]>> :
                                 i \in 1 .. (Len(opp_history) - 1)}
             unique_transitions == Cardinality(transitions)
             max_possible == Min(5, Len(opp_history) - 1)
         IN  [n |-> max_possible - unique_transitions, d |-> max_possible]

\* calculate_pattern_consistency dividing by the number of transitions,
\* without the cap at 4
calculate_pattern_consistency_uncapped(opp_history) ==
    IF Len(opp_history) < 3
    THEN [n |-> 1, d |-> 2]
    ELSE LET transitions == {<<opp_history[i], opp_history[i + 1]>> :
                                 i \in 1 .. (Len(opp_history) - 1)}
             unique_transitions == Cardinality(transitions)
             max_possible == Len(opp_history) - 1
         IN  [n |-> max_possible - unique_transitions, d |-> max_possible]

\* calculate_pattern_consistency: 1 - unique_transitions / min(4, transitions)
calculate_pattern_consistency(opp_history) ==
    IF Len(opp_history) < 3
    THEN [n |-> 1, d |-> 2]
    ELSE LET transitions == {<<opp_history[i], opp_history[i + 1]>> :
                                 i \in 1 .. (Len(opp_history) - 1)}
             unique_transitions == Cardinality(transitions)
             max_possible == Min(4, Len(opp_history) - 1)
         IN  [n |-> max_possible - unique_transitions, d |-> max_possible]

\* calculate_analysis_confidence: (consistency + min(1, len/20)) / 2
calculate_analysis_confidence(opp_history) ==
    IF Len(opp_history) < 5
    THEN [n |-> 1, d |-> 2]
    ELSE LET consistency == calculate_pattern_consistency(opp_history)
             data_quality == Min(20, Len(opp_history))
         IN  [n |-> 20 * consistency.n + data_quality * consistency.d,
              d |-> 40 * consistency.d]

\* wins / max(1, uses)
success_rate(analyzer, strategy) ==
    [n |-> analyzer.strategy_performance[strategy].wins,
     d |-> Max(1, analyzer.strategy_performance[strategy].uses)]

\* get_weighted_random_strategy: random.choices(strategies, weights)[0] on
\* draw r, the first strategy whose cumulative weight exceeds r * total.
\* A weight 0.1 + success_rate is held in units of 1 / (10 * common), where
\* common is the product of the denominators of all success rates.
get_weighted_random_strategy(analyzer, r) ==
    LET n == Len(available_strategies)
        rate == [i \in 1 .. n |-> success_rate(analyzer, available_strategies[i])]
        prod[i \in 0 .. n] == IF i = 0 THEN 1 ELSE prod[i - 1] * rate[i].d
        common == prod[n]
        weights == [i \in 1 .. n |->
                       (rate[i].d + 10 * rate[i].n) * (common \div rate[i].d)]
        cum[i \in 0 .. n] == IF i = 0 THEN 0 ELSE cum[i - 1] + weights[i]
        total == cum[n]
        hit == {i \in 1 .. n : cum[i] * 1000 > r * total}
        idx == IF hit = {} THEN n ELSE CHOOSE i \in hit : \A j \in hit : i <= j
    IN  available_strategies[idx]

\* record_strategy_performance counting every use as won
record_strategy_performance_as_won(analyzer, strategy, won_round) ==
    LET entry == analyzer.strategy_performance[strategy]
    IN  [analyzer EXCEPT !.strategy_performance[strategy] =
            [wins |-> entry.wins + 1, uses |-> entry.uses + 1]]

\* record_strategy_performance: the analyzer after one use of `strategy`,
\* won or not
record_strategy_performance(analyzer, strategy, won_round) ==
    LET entry == analyzer.strategy_performance[strategy]
    IN  [analyzer EXCEPT !.strategy_performance[strategy] =
            [wins |-> entry.wins + (IF won_round THEN 1 ELSE 0),
             uses |-> entry.uses + 1]]

\* the candidates of analyze_opponent's regime, in insertion order, with
\* their scores in tenths.  The doubles compare with 0.8, 0.2, 0.7, 0.6 and
\* 0.4 as the rationals do; abs(coop_rate - 0.5) < 0.2 also holds for the
\* doubles at a cooperation rate of exactly 0.7.
strategy_scores(opp_history, my_score, opp_score) ==
    LET c == Count(opp_history, "C")
        len == Len(opp_history)
        pc == calculate_pattern_consistency(opp_history)
        score_differential == my_score - opp_score
    IN  IF 10 * c > 8 * len /\ 10 * pc.n > 7 * pc.d
        THEN << <<"pattern_matcher", 9>>, <<"adaptive", 6>> >>
        ELSE IF 10 * c < 2 * len /\ 10 * pc.n > 6 * pc.d
        THEN << <<"minimax", 9>>, <<"bayesian", 7>> >>
        ELSE IF 10 * pc.n < 4 * pc.d
        THEN << <<"adaptive", 8>>, <<"fuzzy", 7>> >>
        ELSE IF /\ (5 * Abs(2 * c - len) < 2 * len \/ 10 * c = 7 * len)
                /\ score_differential < -5
        THEN << <<"minimax", 8>>, <<"pattern_matcher", 6>> >>
        ELSE << <<"adaptive", 7>>, <<"bayesian", 6>> >>

\* The pairs of products score1 * (0.5 + rate1) and score2 * (0.5 + rate2),
\* equal as rationals, whose double-precision values have the second above
\* the first; each as <<score1, rate1, score2, rate2>>, scores in tenths,
\* for success rates of at most 10 uses.  On every other pair of equal
\* products the double-precision second is not above the first, and on
\* unequal products the doubles compare as the rationals do.
RoundedAboveTies ==
    { <<9, [n |-> 4, d |-> 9], 7, [n |-> 5, d |-> 7]>>,
      <<8, [n |-> 2, d |-> 3], 7, [n |-> 5, d |-> 6]>>,
      <<7, [n |-> 1, d |-> 4], 6, [n |-> 3, d |-> 8]>>,
      <<7, [n |-> 1, d |-> 7], 6, [n |-> 1, d |-> 4]>>,
      <<7, [n |-> 4, d |-> 7], 6, [n |-> 3, d |-> 4]>> }

\* max(strategy_scores, key=...) with the second candidate replacing the
\* first on equal products as well
best_strategy_last_on_ties(analyzer, opp_history, my_score, opp_score) ==
    LET cand == strategy_scores(opp_history, my_score, opp_score)
        s1 == success_rate(analyzer, cand[1][1])
        s2 == success_rate(analyzer, cand[2][1])
        v1 == cand[1][2] * (s1.d + 2 * s1.n) * s2.d
        v2 == cand[2][2] * (s2.d + 2 * s2.n) * s1.d
    IN  IF v2 >= v1 THEN cand[2][1] ELSE cand[1][1]

\* max(strategy_scores, key=...) after each score is multiplied by
\* (0.5 + success_rate): the first candidate unless the second product, as
\* the doubles compare, is larger
best_strategy(analyzer, opp_history, my_score, opp_score) ==
    LET cand == strategy_scores(opp_history, my_score, opp_score)
        s1 == success_rate(analyzer, cand[1][1])
        s2 == success_rate(analyzer, cand[2][1])
        \* score * (1/2 + n/d) = score * (d + 2n) / (2d)
        v1 == cand[1][2] * (s1.d + 2 * s1.n) * s2.d
        v2 == cand[2][2] * (s2.d + 2 * s2.n) * s1.d
        rounded_above ==
            \E t \in RoundedAboveTies :
                /\ t[1] = cand[1][2]
                /\ t[3] = cand[2][2]
                /\ s1.n * t[2].d = t[2].n * s1.d
                /\ s2.n * t[4].d = t[4].n * s2.d
    IN  IF v2 > v1 \/ (v2 = v1 /\ rounded_above) THEN cand[2][1] ELSE cand[1][1]

\* analyze_opponent on the draw r_noise of random.random() and the draw
\* r_choice of random.choices
analyze_opponent_drawn(analyzer, opp_history, my_score, opp_score, r_noise, r_choice) ==
    IF Len(opp_history) < 3
    THEN "minimax"
    ELSE LET analysis_confidence == calculate_analysis_confidence(opp_history)
         IN  IF r_noise * analysis_confidence.d
                    > analyzer.analysis_accuracy * analysis_confidence.n
             THEN get_weighted_random_strategy(analyzer, r_choice)
             ELSE best_strategy(analyzer, opp_history, my_score, opp_score)

\* analyze_opponent without its first check, `if len(opp_history) < 3`
analyze_opponent_unguarded(analyzer, opp_history, my_score, opp_score) ==
    LET analysis_confidence == calculate_analysis_confidence(opp_history)
        weighted_random == {get_weighted_random_strategy(analyzer, r_choice) :
                                r_choice \in Draws}
        best == IF Len(opp_history) = 0
                THEN "ZeroDivisionError"
                ELSE best_strategy(analyzer, opp_history, my_score, opp_score)
    IN  UNION {IF r_noise * analysis_confidence.d
                     > analyzer.analysis_accuracy * analysis_confidence.n
               THEN weighted_random
               ELSE {best} : r_noise \in Draws}

\* analyze_opponent: every strategy it can return, over the draw r_noise of
\* random.random() and the draw of random.choices
analyze_opponent(analyzer, opp_history, my_score, opp_score) ==
    IF Len(opp_history) < 3
    THEN {"minimax"}
    ELSE LET analysis_confidence == calculate_analysis_confidence(opp_history)
             weighted_random == {get_weighted_random_strategy(analyzer, r_choice) :
                                     r_choice \in Draws}
             best == best_strategy(analyzer, opp_history, my_score, opp_score)
         IN  UNION {IF r_noise * analysis_confidence.d
                          > analyzer.analysis_accuracy * analysis_confidence.n
                    THEN weighted_random
                    ELSE {best} : r_noise \in Draws}

(***************************************************************************)
(* PowerfulAdaptiveAI                                                      *)
(***************************************************************************)
\* PowerfulAdaptiveAI.__init__
PowerfulAdaptiveAI ==
    [ analyzer                 |-> AdvancedStrategyAnalyzer,
      my_history               |-> << >>,
      opp_history              |-> << >>,
      current_strategy         |-> "minimax",
      strategy_change_cooldown |-> 0,
      learning_rate            |-> 850,
      prediction_accuracy      |-> 880,
      risk_tolerance           |-> 400,
      consecutive_losses       |-> 0,
      aggression_level         |-> 300,
      pattern_memory           |-> << >>,
      bayesian_prior           |-> 500000 ]

\* update_bayesian_prior without min(0.95, ..) and max(0.05, ..)
update_bayesian_prior_unclamped(ai, move) ==
    IF move = "C"
    THEN [ai EXCEPT !.bayesian_prior = (ai.bayesian_prior * 11) \div 10]
    ELSE [ai EXCEPT !.bayesian_prior = (ai.bayesian_prior * 9) \div 10]

\* update_bayesian_prior: the prior after a move, clamped to [0.05, 0.95]
update_bayesian_prior(ai, move) ==
    IF move = "C"
    THEN [ai EXCEPT !.bayesian_prior = Min(950000, (ai.bayesian_prior * 11) \div 10)]
    ELSE [ai EXCEPT !.bayesian_prior = Max(50000, (ai.bayesian_prior * 9) \div 10)]

\* opp_history[-3:].count('C') / min(3, len(opp_history))
recent_coop(opp_history) ==
    [n |-> Count(Tail_(opp_history, 3), "C"), d |-> Min(3, Len(opp_history))]

\* minimax_decision dampening ev_defect whatever the own history is
minimax_decision_always_damped(ai) ==
    IF Len(ai.opp_history) = 0
    THEN "C"
    ELSE LET c == Count(ai.opp_history, "C")
             len == Len(ai.opp_history)
             recent_trend == recent_coop(ai.opp_history)
             wn == 2 * c * recent_trend.d + 3 * recent_trend.n * len
             wd == 5 * len * recent_trend.d
             risk_adjustment == 1000 - ai.risk_tolerance
             ev_coop == 3000 * wn
             ev_defect == 5 * wn * risk_adjustment + 1000 * (wd - wn)
         IN  IF 10 * ev_coop > 9 * ev_defect THEN "C" ELSE "D"

\* minimax_decision without the dampening of ev_defect
minimax_decision_undamped(ai) ==
    IF Len(ai.opp_history) = 0
    THEN "C"
    ELSE LET c == Count(ai.opp_history, "C")
             len == Len(ai.opp_history)
             recent_trend == recent_coop(ai.opp_history)
             wn == 2 * c * recent_trend.d + 3 * recent_trend.n * len
             wd == 5 * len * recent_trend.d
             risk_adjustment == 1000 - ai.risk_tolerance
             ev_coop == 3000 * wn
             ev_defect == 5 * wn * risk_adjustment + 1000 * (wd - wn)
         IN  IF ev_coop > ev_defect THEN "C" ELSE "D"

\* minimax_decision: Cooperate iff ev_coop > ev_defect
minimax_decision(ai) ==
    IF Len(ai.opp_history) = 0
    THEN "C"
    ELSE LET c == Count(ai.opp_history, "C")
             len == Len(ai.opp_history)
             recent_trend == recent_coop(ai.opp_history)
             \* weighted_coop = 0.4 * c/len + 0.6 * recent_trend = wn / wd
             wn == 2 * c * recent_trend.d + 3 * recent_trend.n * len
             wd == 5 * len * recent_trend.d
             risk_adjustment == 1000 - ai.risk_tolerance
             \* both expected values in units of 1 / (1000 * wd)
             ev_coop == 3000 * wn
             ev_defect == 5 * wn * risk_adjustment + 1000 * (wd - wn)
             dampened == /\ Len(ai.my_history) > 10
                         /\ 10 * Count(ai.my_history, "D") > 7 * Len(ai.my_history)
         IN  IF dampened
             THEN (IF 10 * ev_coop > 9 * ev_defect THEN "C" ELSE "D")
             ELSE (IF ev_coop > ev_defect THEN "C" ELSE "D")

\* bayesian_decision with the confidence |posterior - 0.5| not doubled
bayesian_decision_undoubled(ai) ==
    IF Len(ai.opp_history) = 0
    THEN "C"
    ELSE IF Min(3, Len(ai.opp_history)) = 0
    THEN "ZeroDivisionError"
    ELSE LET likelihood == recent_coop(ai.opp_history)
             num == likelihood.n * ai.bayesian_prior
             den == likelihood.n * ai.bayesian_prior
                      + (likelihood.d - likelihood.n) * (1000000 - ai.bayesian_prior)
         IN  IF den = 0
             THEN "ZeroDivisionError"
             ELSE IF 10 * Abs(2 * num - den) > 6 * 2 * den
             THEN (IF 2 * num > den THEN "C" ELSE "D")
             ELSE minimax_decision(ai)

\* bayesian_decision without its first check, `if not self.opp_history`
bayesian_decision_unguarded(ai) ==
    IF Min(3, Len(ai.opp_history)) = 0
    THEN "ZeroDivisionError"
    ELSE LET likelihood == recent_coop(ai.opp_history)
             num == likelihood.n * ai.bayesian_prior
             den == likelihood.n * ai.bayesian_prior
                      + (likelihood.d - likelihood.n) * (1000000 - ai.bayesian_prior)
         IN  IF den = 0
             THEN "ZeroDivisionError"
             ELSE IF 10 * Abs(2 * num - den) > 6 * den
             THEN (IF 2 * num > den THEN "C" ELSE "D")
             ELSE minimax_decision(ai)

\* bayesian_decision: posterior from the recent cooperation rate and the prior
bayesian_decision(ai) ==
    IF Len(ai.opp_history) = 0
    THEN "C"
    ELSE IF Min(3, Len(ai.opp_history)) = 0
    THEN "ZeroDivisionError"
    ELSE LET likelihood == recent_coop(ai.opp_history)
             \* posterior = num / den
             num == likelihood.n * ai.bayesian_prior
             den == likelihood.n * ai.bayesian_prior
                      + (likelihood.d - likelihood.n) * (1000000 - ai.bayesian_prior)
         IN  IF den = 0
             THEN "ZeroDivisionError"
             ELSE IF 10 * Abs(2 * num - den) > 6 * den
             THEN (IF 2 * num > den THEN "C" ELSE "D")
             ELSE minimax_decision(ai)

\* markov_prediction: the opposite of the move that most often followed the
\* current two-move state
markov_prediction(ai) ==
    IF Len(ai.opp_history) < 3
    THEN minimax_decision(ai)
    ELSE LET h == ai.opp_history
             current_state == Tail_(h, 2)
             followers(m) == Cardinality({j \in 3 .. Len(h) :
                                 /\ <<h[j - 2], h[j - 1]>> = current_state
                                 /\ h[j] = m})
             total == followers("C") + followers("D")
             \* max over the dict {'C': .., 'D': ..}: 'C' unless 'D' is larger
             predicted_move == IF followers("D") > followers("C") THEN "D" ELSE "C"
         IN  IF total = 0
             THEN minimax_decision(ai)
             ELSE (IF predicted_move = "C" THEN "D" ELSE "C")

\* pattern_matcher_decision without its response table
pattern_matcher_decision_without_table(ai) ==
    IF Len(ai.opp_history) < 4
    THEN minimax_decision(ai)
    ELSE markov_prediction(ai)

\* pattern_matcher_decision: the response table on the last four moves
pattern_matcher_decision(ai) ==
    IF Len(ai.opp_history) < 4
    THEN minimax_decision(ai)
    ELSE LET recent_pattern == Tail_(ai.opp_history, 4)
         IN  CASE recent_pattern = <<"C", "C", "C", "C">> -> "D"
               [] recent_pattern = <<"D", "D", "D", "D">> -> "C"
               [] recent_pattern = <<"C", "D", "C", "D">> -> LastOf(ai.opp_history)
               [] recent_pattern = <<"D", "C", "D", "C">> -> LastOf(ai.opp_history)
               [] recent_pattern = <<"C", "C", "D", "C">> -> "D"
               [] recent_pattern = <<"D", "D", "C", "D">> -> "C"
               [] OTHER -> markov_prediction(ai)

\* tit_for_tat_decision without forgiveness
tit_for_tat_decision_unforgiving(ai, r) ==
    IF Len(ai.opp_history) = 0
    THEN "C"
    ELSE LastOf(ai.opp_history)

\* tit_for_tat_decision on draw r: echo, forgiving a Defect with probability
\* 0.1 + 0.3 * overall cooperation rate
tit_for_tat_decision(ai, r) ==
    IF Len(ai.opp_history) = 0
    THEN "C"
    ELSE IF /\ LastOf(ai.opp_history) = "D"
            /\ r * Len(ai.opp_history)
                 < 100 * Len(ai.opp_history) + 300 * Count(ai.opp_history, "C")
    THEN "C"
    ELSE LastOf(ai.opp_history)

\* the if / elif chain of fuzzy_decision testing the consistency first
fuzzy_branch_consistency_first(opp_history) ==
    LET c == Count(opp_history, "C")
        len == Len(opp_history)
        recent_trend == recent_coop(opp_history)
        consistency == calculate_pattern_consistency(opp_history)
    IN  IF 10 * consistency.n > 7 * consistency.d
        THEN 3
        ELSE IF 10 * c > 8 * len /\ 10 * recent_trend.n > 6 * recent_trend.d
        THEN 1
        ELSE IF 10 * c < 2 * len /\ 10 * recent_trend.n < 4 * recent_trend.d
        THEN 2
        ELSE IF /\ 10 * Abs(2 * c - len) < 3 * 2 * len
                /\ 10 * consistency.n < 4 * consistency.d
        THEN 4
        ELSE 5

\* the if / elif chain of fuzzy_decision on a non-empty opponent history:
\* the number, 1 to 5, of the branch taken
fuzzy_branch(opp_history) ==
    LET c == Count(opp_history, "C")
        len == Len(opp_history)
        recent_trend == recent_coop(opp_history)
        consistency == calculate_pattern_consistency(opp_history)
    IN  IF 10 * c > 8 * len /\ 10 * recent_trend.n > 6 * recent_trend.d
        THEN 1
        ELSE IF 10 * c < 2 * len /\ 10 * recent_trend.n < 4 * recent_trend.d
        THEN 2
        ELSE IF 10 * consistency.n > 7 * consistency.d
        THEN 3
        ELSE IF /\ 10 * Abs(2 * c - len) < 3 * 2 * len
                /\ 10 * consistency.n < 4 * consistency.d
        THEN 4
        ELSE 5

\* fuzzy_decision on draw r
fuzzy_decision(ai, r) ==
    IF Len(ai.opp_history) = 0
    THEN "C"
    ELSE CASE fuzzy_branch(ai.opp_history) = 1 -> (IF r < 900 THEN "C" ELSE "D")
           [] fuzzy_branch(ai.opp_history) = 2 -> (IF r < 900 THEN "D" ELSE "C")
           [] fuzzy_branch(ai.opp_history) = 3 -> pattern_matcher_decision(ai)
           [] fuzzy_branch(ai.opp_history) = 4 -> tit_for_tat_decision(ai, r)
           [] OTHER -> bayesian_decision(ai)

\* the payoff of my_move against opp_move as calculate_comprehensive_success
\* counts it
RoundScore(my_move, opp_move) ==
    IF <<my_move, opp_move>> = <<"C", "C">> THEN 3
    ELSE IF <<my_move, opp_move>> = <<"C", "D">> THEN 0
    ELSE IF <<my_move, opp_move>> = <<"D", "C">> THEN 5
    ELSE 1

\* The double computed by (total / (len * 5)) * 0.7 + (exploit / len) * 0.3
\* against its exact value 0.4 or 0.7, for histories of up to 25 rounds:
\* -1 when the double is smaller, 1 when it is larger, 0 when they are equal.
\* An exact 0.4 is computed as 0.39999999999999997 except in the cases
\* listed; an exact 0.7 is computed as 0.7 except in the case listed.
FloatError(len, total, exploit) ==
    IF 7 * total + 15 * exploit = 20 * len
    THEN (IF <<len, total, exploit>> \in {<<17, 40, 4>>, <<20, 55, 1>>, <<23, 55, 5>>}
          THEN 0 ELSE -1)
    ELSE IF 7 * total + 15 * exploit = 35 * len
    THEN (IF <<len, total, exploit>> = <<18, 75, 7>> THEN 1 ELSE 0)
    ELSE 0

\* calculate_comprehensive_success:
\* min(1, 0.7 * total_score / max_possible + 0.3 * exploit_success), as the
\* exact ratio n / d and the sign err of the double's rounding error
calculate_comprehensive_success(ai) ==
    IF Len(ai.my_history) < 2
    THEN [n |-> 1, d |-> 2, err |-> 0]
    ELSE LET len == Len(ai.my_history)
             total[i \in 0 .. len] ==
                 IF i = 0 THEN 0
                 ELSE total[i - 1] + RoundScore(ai.my_history[i], ai.opp_history[i])
             exploit == Cardinality({i \in 1 .. len :
                            ai.my_history[i] = "D" /\ ai.opp_history[i] = "C"})
         IN  [n |-> Min(50 * len, 7 * total[len] + 15 * exploit),
              d |-> 50 * len,
              err |-> FloatError(len, total[len], exploit)]

\* adaptive_decision on draw r: the move and the agent with its loss counter
\* and aggression level updated
adaptive_decision(ai, r) ==
    IF Len(ai.opp_history) = 0
    THEN [ai |-> ai, move |-> "C"]
    ELSE IF Len(ai.my_history) >= 2 /\ Len(ai.opp_history) < Len(ai.my_history)
    THEN [ai |-> ai, move |-> "IndexError"]
    ELSE LET rate == calculate_comprehensive_success(ai)
             \* success_rate > 0.7 and success_rate < 0.4 on doubles
             high == 10 * rate.n > 7 * rate.d \/ (10 * rate.n = 7 * rate.d /\ rate.err > 0)
             low == 10 * rate.n < 4 * rate.d \/ (10 * rate.n = 4 * rate.d /\ rate.err < 0)
         IN  IF high
             THEN IF Len(ai.my_history) > 0
                  THEN [ai |-> ai,
                        move |-> IF r < 800 THEN LastOf(ai.my_history) ELSE "D"]
                  ELSE [ai |-> ai, move |-> "C"]
             ELSE IF low
             THEN LET lost == [ai EXCEPT
                          !.consecutive_losses = ai.consecutive_losses + 1,
                          !.aggression_level = Min(800, ai.aggression_level + 100)]
                  IN  IF lost.consecutive_losses > 2
                      THEN [ai |-> lost, move |-> "D"]
                      ELSE [ai |-> lost, move |-> IF r < 300 THEN "C" ELSE "D"]
             ELSE [ai |-> [ai EXCEPT !.consecutive_losses = 0],
                   move |-> IF r < 600 THEN "C" ELSE "D"]

\* should_analyze without its first conjunct, the cooldown
should_analyze_ignoring_cooldown(ai, round_num) ==
    /\ Len(ai.opp_history) >= 3
    /\ (round_num % 3 = 0 \/ Len(ai.opp_history) < 8)

\* should_analyze of decide_move
should_analyze(ai, round_num) ==
    /\ ai.strategy_change_cooldown <= 0
    /\ Len(ai.opp_history) >= 3
    /\ (round_num % 3 = 0 \/ Len(ai.opp_history) < 8)

\* the selection step with the cooldown decremented without the floor at 0
select_strategy_unfloored(ai, round_num, my_score, opp_score) ==
    IF should_analyze(ai, round_num)
    THEN LET recommended ==
                 analyze_opponent(ai.analyzer, ai.opp_history, my_score, opp_score)
         IN  UNION {IF new_strategy # ai.current_strategy
                    THEN {[ai EXCEPT !.current_strategy = new_strategy,
                                     !.strategy_change_cooldown = k] : k \in 2 .. 5}
                    ELSE {ai} : new_strategy \in recommended}
    ELSE {[ai EXCEPT !.strategy_change_cooldown = ai.strategy_change_cooldown - 1]}

\* the selection step with the cooldown drawn by random.randint(1, 5)
select_strategy_short_cooldown(ai, round_num, my_score, opp_score) ==
    IF should_analyze(ai, round_num)
    THEN LET recommended ==
                 analyze_opponent(ai.analyzer, ai.opp_history, my_score, opp_score)
         IN  UNION {IF new_strategy # ai.current_strategy
                    THEN {[ai EXCEPT !.current_strategy = new_strategy,
                                     !.strategy_change_cooldown = k] : k \in 1 .. 5}
                    ELSE {ai} : new_strategy \in recommended}
    ELSE {[ai EXCEPT !.strategy_change_cooldown =
                         Max(0, ai.strategy_change_cooldown - 1)]}

\* the selection step of decide_move: every agent it can leave, over the
\* strategies analyze_opponent can return and random.randint(2, 5)
select_strategy(ai, round_num, my_score, opp_score) ==
    IF should_analyze(ai, round_num)
    THEN LET recommended ==
                 analyze_opponent(ai.analyzer, ai.opp_history, my_score, opp_score)
         IN  UNION {IF new_strategy # ai.current_strategy
                    THEN {[ai EXCEPT !.current_strategy = new_strategy,
                                     !.strategy_change_cooldown = k] : k \in 2 .. 5}
                    ELSE {ai} : new_strategy \in recommended}
    ELSE {[ai EXCEPT !.strategy_change_cooldown =
                         Max(0, ai.strategy_change_cooldown - 1)]}

\* the dispatch of decide_move on current_strategy, on draw r, followed by
\* update_bayesian_prior(move)
dispatch(ai, r) ==
    LET chosen ==
            CASE ai.current_strategy = "minimax" ->
                     [ai |-> ai, move |-> minimax_decision(ai)]
              [] ai.current_strategy = "fuzzy" ->
                     [ai |-> ai, move |-> fuzzy_decision(ai, r)]
              [] ai.current_strategy = "tit_for_tat" ->
                     [ai |-> ai, move |-> tit_for_tat_decision(ai, r)]
              [] ai.current_strategy = "adaptive" -> adaptive_decision(ai, r)
              [] ai.current_strategy = "pattern_matcher" ->
                     [ai |-> ai, move |-> pattern_matcher_decision(ai)]
              [] ai.current_strategy = "bayesian" ->
                     [ai |-> ai, move |-> bayesian_decision(ai)]
              [] OTHER -> [ai |-> ai, move |-> minimax_decision(ai)]
    IN  IF chosen.move \in Raised
        THEN chosen
        ELSE [ai |-> update_bayesian_prior(chosen.ai, chosen.move),
              move |-> chosen.move]

\* the move step of decide_move: with a draw below 0.01 a random.choice of
\* the two moves is returned at once, otherwise the dispatched move
choose_move(ai) ==
    LET overridden == {[ai |-> ai, move |-> m] : m \in Moves}
        dispatched == {dispatch(ai, r) : r \in Draws}
    IN  UNION {IF r_override < 10 THEN overridden ELSE dispatched :
                   r_override \in Draws}

\* PowerfulAdaptiveAI.decide_move: every (agent after the call, move returned)
decide_move(ai, round_num, my_score, opp_score) ==
    UNION {choose_move(selected) :
               selected \in select_strategy(ai, round_num, my_score, opp_score)}

\* reset without the line that restores bayesian_prior
reset_keeping_prior(ai) ==
    [ai EXCEPT !.my_history = << >>,
               !.opp_history = << >>,
               !.current_strategy = "minimax",
               !.strategy_change_cooldown = 0,
               !.consecutive_losses = 0,
               !.aggression_level = 300,
               !.analyzer = AdvancedStrategyAnalyzer]

\* PowerfulAdaptiveAI.reset
reset(ai) ==
    [ai EXCEPT !.my_history = << >>,
               !.opp_history = << >>,
               !.current_strategy = "minimax",
               !.strategy_change_cooldown = 0,
               !.consecutive_losses = 0,
               !.aggression_level = 300,
               !.bayesian_prior = 500000,
               !.analyzer = AdvancedStrategyAnalyzer]

(***************************************************************************)
(* StrategicOpponentAI                                                     *)
(***************************************************************************)
\* setup_game: self.opponent_types
opponent_types ==
    <<"cooperative", "aggressive", "random", "tit_for_tat", "forgiving",
      "strategic", "unpredictable", "exploitative", "mirror">>

OpponentTypes == {opponent_types[i] : i \in DOMAIN opponent_types}

Profile(c, f, a, d) ==
    [coop_bias |-> c, forgiveness |-> f, aggression |-> a, adaptability |-> d]

\* initialize_personality with personalities["unpredictable"] as the default
initialize_personality_default_unpredictable(ai_type) ==
    CASE ai_type = "cooperative"   -> Profile(800, 900, 100, 300)
      [] ai_type = "aggressive"    -> Profile(200, 100, 900, 600)
      [] ai_type = "random"        -> Profile(500, 500, 500, 1000)
      [] ai_type = "tit_for_tat"   -> Profile(500, 300, 500, 700)
      [] ai_type = "forgiving"     -> Profile(700, 800, 200, 500)
      [] ai_type = "strategic"     -> Profile(600, 400, 600, 900)
      [] ai_type = "unpredictable" -> Profile(500, 500, 500, 800)
      [] ai_type = "exploitative"  -> Profile(400, 200, 800, 700)
      [] ai_type = "mirror"        -> Profile(500, 500, 500, 600)
      [] OTHER                     -> Profile(500, 500, 500, 800)

\* initialize_personality: personalities.get(ai_type, personalities["random"])
initialize_personality(ai_type) ==
    CASE ai_type = "cooperative"   -> Profile(800, 900, 100, 300)
      [] ai_type = "aggressive"    -> Profile(200, 100, 900, 600)
      [] ai_type = "random"        -> Profile(500, 500, 500, 1000)
      [] ai_type = "tit_for_tat"   -> Profile(500, 300, 500, 700)
      [] ai_type = "forgiving"     -> Profile(700, 800, 200, 500)
      [] ai_type = "strategic"     -> Profile(600, 400, 600, 900)
      [] ai_type = "unpredictable" -> Profile(500, 500, 500, 800)
      [] ai_type = "exploitative"  -> Profile(400, 200, 800, 700)
      [] ai_type = "mirror"        -> Profile(500, 500, 500, 600)
      [] OTHER                     -> Profile(500, 500, 500, 1000)

\* StrategicOpponentAI.__init__
StrategicOpponentAI(ai_type) ==
    [ ai_type     |-> ai_type,
      my_history  |-> << >>,
      opp_history |-> << >>,
      personality |-> initialize_personality(ai_type) ]

\* decide_move with an unknown type playing the policy of "random"
opponent_decide_move_default_random(ai, round_num, my_score, opp_score, r) ==
    CASE ai.ai_type = "cooperative" -> (IF r < 800 THEN "C" ELSE "D")
      [] ai.ai_type = "aggressive" -> (IF r < 800 THEN "D" ELSE "C")
      [] ai.ai_type = "random" -> (IF r < 500 THEN "C" ELSE "D")
      [] ai.ai_type = "tit_for_tat" ->
             IF Len(ai.opp_history) = 0 THEN "C" ELSE LastOf(ai.opp_history)
      [] ai.ai_type = "forgiving" ->
             IF Len(ai.opp_history) = 0 THEN "C"
             ELSE IF LastOf(ai.opp_history) = "D" /\ r < ai.personality.forgiveness
             THEN "C"
             ELSE LastOf(ai.opp_history)
      [] ai.ai_type = "strategic" ->
             IF Len(ai.opp_history) < 3 THEN "C"
             ELSE IF /\ Len(ai.opp_history) >= 5
                     /\ Cardinality({Tail_(ai.opp_history, 3)[i] : i \in 1 .. 3}) = 1
             THEN (IF Tail_(ai.opp_history, 3)[1] = "C" THEN "D" ELSE "C")
             ELSE IF 10 * Count(ai.opp_history, "C") > 6 * Len(ai.opp_history)
             THEN "C"
             ELSE "D"
      [] ai.ai_type = "unpredictable" ->
             IF Len(ai.my_history) < 2 THEN "C"
             ELSE IF r < 300
             THEN (IF LastOf(ai.my_history) = "C" THEN "D" ELSE "C")
             ELSE IF Len(ai.opp_history) > 0 THEN LastOf(ai.opp_history)
             ELSE "C"
      [] ai.ai_type = "exploitative" ->
             IF Len(ai.opp_history) < 4 THEN "C"
             ELSE IF \A i \in 1 .. 2 : Tail_(ai.opp_history, 2)[i] = "C" THEN "D"
             ELSE IF \A i \in 1 .. 2 : Tail_(ai.opp_history, 2)[i] = "D" THEN "C"
             ELSE IF r < 600 THEN "D"
             ELSE "C"
      [] ai.ai_type = "mirror" ->
             IF Len(ai.opp_history) = 0 THEN "C"
             ELSE IF r < 100
             THEN (IF LastOf(ai.opp_history) = "C" THEN "D" ELSE "C")
             ELSE LastOf(ai.opp_history)
      [] OTHER -> (IF r < 500 THEN "C" ELSE "D")

\* StrategicOpponentAI.decide_move on draw r
opponent_decide_move(ai, round_num, my_score, opp_score, r) ==
    CASE ai.ai_type = "cooperative" -> (IF r < 800 THEN "C" ELSE "D")
      [] ai.ai_type = "aggressive" -> (IF r < 800 THEN "D" ELSE "C")
      [] ai.ai_type = "random" -> (IF r < 500 THEN "C" ELSE "D")
      [] ai.ai_type = "tit_for_tat" ->
             IF Len(ai.opp_history) = 0 THEN "C" ELSE LastOf(ai.opp_history)
      [] ai.ai_type = "forgiving" ->
             IF Len(ai.opp_history) = 0 THEN "C"
             ELSE IF LastOf(ai.opp_history) = "D" /\ r < ai.personality.forgiveness
             THEN "C"
             ELSE LastOf(ai.opp_history)
      [] ai.ai_type = "strategic" ->
             IF Len(ai.opp_history) < 3 THEN "C"
             ELSE IF /\ Len(ai.opp_history) >= 5
                     /\ Cardinality({Tail_(ai.opp_history, 3)[i] : i \in 1 .. 3}) = 1
             THEN (IF Tail_(ai.opp_history, 3)[1] = "C" THEN "D" ELSE "C")
             ELSE IF 10 * Count(ai.opp_history, "C") > 6 * Len(ai.opp_history)
             THEN "C"
             ELSE "D"
      [] ai.ai_type = "unpredictable" ->
             IF Len(ai.my_history) < 2 THEN "C"
             ELSE IF r < 300
             THEN (IF LastOf(ai.my_history) = "C" THEN "D" ELSE "C")
             ELSE IF Len(ai.opp_history) > 0 THEN LastOf(ai.opp_history)
             ELSE "C"
      [] ai.ai_type = "exploitative" ->
             IF Len(ai.opp_history) < 4 THEN "C"
             ELSE IF \A i \in 1 .. 2 : Tail_(ai.opp_history, 2)[i] = "C" THEN "D"
             ELSE IF \A i \in 1 .. 2 : Tail_(ai.opp_history, 2)[i] = "D" THEN "C"
             ELSE IF r < 600 THEN "D"
             ELSE "C"
      [] ai.ai_type = "mirror" ->
             IF Len(ai.opp_history) = 0 THEN "C"
             ELSE IF r < 100
             THEN (IF LastOf(ai.opp_history) = "C" THEN "D" ELSE "C")
             ELSE LastOf(ai.opp_history)
      [] OTHER -> "C"

\* StrategicOpponentAI.reset
opponent_reset(ai) ==
    [ai EXCEPT !.my_history = << >>, !.opp_history = << >>]

(***************************************************************************)
(* IndustryGradeGame: the match driver                                     *)
(***************************************************************************)
VARIABLES
    state,                  \* INTRO, MENU, BATTLE, RESULTS or OUTRO
    round_number,
    max_rounds,
    strategy_display,       \* self.player1.strategy_display
    payoffs,                \* self.payoffs
    current_opponent_type,
    adaptive_ai,            \* self.adaptive_ai, which is self.player1.ai
    opponent_ai,            \* self.opponent_ai, which is self.player2.ai
    player1_score,          \* self.player1.score
    player2_score,          \* self.player2.score
    history,                \* self.history
    adaptive_wins,
    opponent_wins,
    ties,
    auto_play               \* self.auto_play

\* One call of a method on an agent, outside the driver's round: the method
\* called, the agent as the call found it, and the value returned.
VARIABLES call, arg, ret

vars ==
    <<state, round_number, max_rounds, strategy_display, payoffs,
      current_opponent_type, adaptive_ai, opponent_ai, player1_score,
      player2_score, history, adaptive_wins, opponent_wins, ties,
      auto_play, call, arg, ret>>

\* strategy.replace('_', ' ').title()
StrategyTitle(strategy) ==
    CASE strategy = "minimax"         -> "Minimax"
      [] strategy = "fuzzy"           -> "Fuzzy"
      [] strategy = "tit_for_tat"     -> "Tit For Tat"
      [] strategy = "adaptive"        -> "Adaptive"
      [] strategy = "pattern_matcher" -> "Pattern Matcher"
      [] strategy = "bayesian"        -> "Bayesian"

\* the payoff matrix with the two players' payoffs of (C, D) exchanged
PayoffMatrixSwapped ==
    [pair \in Moves \X Moves |->
        CASE pair = <<"C", "C">> -> <<3, 3>>
          [] pair = <<"C", "D">> -> <<5, 0>>
          [] pair = <<"D", "C">> -> <<5, 0>>
          [] pair = <<"D", "D">> -> <<1, 1>>]

\* setup_game: the payoff matrix
PayoffMatrix ==
    [pair \in Moves \X Moves |->
        CASE pair = <<"C", "C">> -> <<3, 3>>
          [] pair = <<"C", "D">> -> <<0, 5>>
          [] pair = <<"D", "C">> -> <<5, 0>>
          [] pair = <<"D", "D">> -> <<1, 1>>]

\* IndustryGradeGame.__init__ and setup_game, with the round limit max_rounds
\* (25 in setup_game)
Construct(limit) ==
    /\ state = "INTRO"
    /\ round_number = 0
    /\ max_rounds = limit
    /\ strategy_display = ""
    /\ payoffs = PayoffMatrix
    /\ current_opponent_type \in OpponentTypes
    /\ adaptive_ai = PowerfulAdaptiveAI
    /\ opponent_ai = StrategicOpponentAI(current_opponent_type)
    /\ player1_score = 0
    /\ player2_score = 0
    /\ history = << >>
    /\ adaptive_wins = 0
    /\ opponent_wins = 0
    /\ ties = 0
    /\ auto_play = FALSE
    /\ call = ""
    /\ arg = ""
    /\ ret = ""

\* the game as constructed, playing matches of MaxRounds rounds
Init == Construct(MaxRounds)

\* handle_events (skip button) and update (intro timer): transition_to_state(MENU)
IntroToMenu ==
    /\ state = "INTRO"
    /\ state' = "MENU"
    /\ UNCHANGED <<round_number, max_rounds, strategy_display, payoffs,
                   current_opponent_type, adaptive_ai,
                   opponent_ai, player1_score, player2_score, history,
                   adaptive_wins, opponent_wins, ties, auto_play, call, arg,
                   ret>>

\* start_battle, from the start button of the menu
StartBattle ==
    /\ state = "MENU"
    /\ state' = "BATTLE"
    /\ round_number' = 0
    /\ player1_score' = 0
    /\ player2_score' = 0
    /\ history' = << >>
    /\ auto_play' = FALSE
    /\ adaptive_ai' = reset(adaptive_ai)
    /\ opponent_ai' = opponent_reset(opponent_ai)
    /\ UNCHANGED <<max_rounds, strategy_display, payoffs, current_opponent_type,
                   adaptive_wins, opponent_wins, ties, call, arg, ret>>

\* reset_game, from the start button of the results screen
ResetGame ==
    /\ state = "RESULTS"
    /\ state' = "MENU"
    /\ player1_score' = 0
    /\ player2_score' = 0
    /\ history' = << >>
    /\ UNCHANGED <<round_number, max_rounds, strategy_display, payoffs,
                   current_opponent_type, adaptive_ai,
                   opponent_ai, adaptive_wins, opponent_wins, ties, auto_play,
                   call, arg, ret>>

\* the index of a type in self.opponent_types
IndexOf(ai_type) == CHOOSE i \in DOMAIN opponent_types : opponent_types[i] = ai_type

\* change_opponent, from its button during a battle
ChangeOpponent ==
    /\ state = "BATTLE"
    /\ LET next_index == (IndexOf(current_opponent_type) % Len(opponent_types)) + 1
       IN  /\ current_opponent_type' = opponent_types[next_index]
           /\ opponent_ai' = StrategicOpponentAI(opponent_types[next_index])
    /\ UNCHANGED <<state, round_number, max_rounds, strategy_display, payoffs,
                   adaptive_ai, player1_score,
                   player2_score, history, adaptive_wins, opponent_wins, ties,
                   auto_play, call, arg, ret>>

\* end_game
EndGame ==
    /\ state' = "RESULTS"
    /\ IF player1_score > player2_score
       THEN /\ adaptive_wins' = adaptive_wins + 1
            /\ UNCHANGED <<opponent_wins, ties>>
       ELSE IF player2_score > player1_score
       THEN /\ opponent_wins' = opponent_wins + 1
            /\ UNCHANGED <<adaptive_wins, ties>>
       ELSE /\ ties' = ties + 1
            /\ UNCHANGED <<adaptive_wins, opponent_wins>>
    /\ UNCHANGED <<round_number, max_rounds, strategy_display, payoffs,
                   current_opponent_type, adaptive_ai,
                   opponent_ai, player1_score, player2_score, history,
                   auto_play, call, arg, ret>>

\* the opponent's decision with the adaptive agent's move of this round
\* already in its opp_history
opponent_decision_after_append(ai, move1, round_num, my_score, opp_score) ==
    {opponent_decide_move([ai EXCEPT !.opp_history = Append(ai.opp_history, move1)],
                          round_num, my_score, opp_score, r) : r \in Draws}

\* play_round: move2 = self.player2.ai.decide_move(...), called when the
\* adaptive agent's move1 is known and before any history is appended; the
\* moves the opponent can return, over its draws
opponent_decision(ai, move1, round_num, my_score, opp_score) ==
    {opponent_decide_move(ai, round_num, my_score, opp_score, r) : r \in Draws}

\* play_round past its first check: both decisions, the history appends, the
\* scores and the match history
RunRound ==
    \E first \in decide_move(adaptive_ai, round_number, player1_score, player2_score) :
    \E move2 \in opponent_decision(opponent_ai, first.move, round_number,
                                   player2_score, player1_score) :
        LET move1 == first.move
            p1_score == payoffs[<<move1, move2>>][1]
            p2_score == payoffs[<<move1, move2>>][2]
        IN  /\ adaptive_ai' = [first.ai EXCEPT
                                  !.my_history = Append(first.ai.my_history, move1),
                                  !.opp_history = Append(first.ai.opp_history, move2)]
            /\ opponent_ai' = [opponent_ai EXCEPT
                                  !.my_history = Append(opponent_ai.my_history, move2),
                                  !.opp_history = Append(opponent_ai.opp_history, move1)]
            /\ player1_score' = player1_score + p1_score
            /\ player2_score' = player2_score + p2_score
            /\ history' = Append(history, <<move1, move2, p1_score, p2_score>>)
            /\ strategy_display' =
                   IF first.ai.current_strategy # adaptive_ai.current_strategy
                   THEN StrategyTitle(first.ai.current_strategy)
                   ELSE strategy_display
            /\ round_number' = round_number + 1
            /\ UNCHANGED <<state, max_rounds, payoffs, current_opponent_type,
                           adaptive_wins, opponent_wins, ties, auto_play, call, arg,
                   ret>>

\* play_round playing a round when round_number equals max_rounds
PlayRoundPastLimit ==
    /\ state = "BATTLE"
    /\ adaptive_wins + opponent_wins + ties < MaxMatches
    /\ IF round_number > max_rounds THEN EndGame ELSE RunRound

\* play_round, from the next-round button during a battle
PlayRound ==
    /\ state = "BATTLE"
    /\ adaptive_wins + opponent_wins + ties < MaxMatches
    /\ IF round_number >= max_rounds THEN EndGame ELSE RunRound

Next ==
    \/ IntroToMenu
    \/ StartBattle
    \/ ChangeOpponent
    \/ PlayRound
    \/ ResetGame

Spec == Init /\ [][Next]_vars

(***************************************************************************)
(* A battle left on auto-play: on a freshly constructed game the battle is *)
(* started, the user plays rounds from the next-round button or ends the   *)
(* match with it, and may switch auto-play on; from then on there is no    *)
(* input and only update acts.  The timers update waits for                *)
(* (round_transition and the two move_animation counters) are lowered by   *)
(* every frame and are not modelled: a step of AutoPlayRound is the frame  *)
(* in which they have run out, which comes within 90 frames of a round.    *)
(***************************************************************************)
\* handle_events: the auto-play button pressed during a battle
ToggleAutoPlay ==
    /\ state = "BATTLE"
    /\ auto_play' = ~auto_play
    /\ UNCHANGED <<state, round_number, max_rounds, strategy_display, payoffs,
                   current_opponent_type, adaptive_ai, opponent_ai,
                   player1_score, player2_score, history, adaptive_wins,
                   opponent_wins, ties, call, arg, ret>>

\* update calling play_round on auto-play whatever the round number
AutoPlayRoundUnguarded ==
    /\ state = "BATTLE"
    /\ auto_play
    /\ PlayRound

\* update in a battle: play_round called on auto-play while round_number is
\* below max_rounds
AutoPlayRound ==
    /\ state = "BATTLE"
    /\ auto_play /\ round_number < max_rounds
    /\ PlayRound

\* the next-round button before auto-play is switched on
ButtonRound == ~auto_play /\ PlayRound

\* the auto-play button, switching auto-play on
SwitchAutoPlayOn == ~auto_play /\ ToggleAutoPlay

NextAuto ==
    \/ IntroToMenu
    \/ StartBattle
    \/ ButtonRound
    \/ SwitchAutoPlayOn
    \/ AutoPlayRound

\* the game as constructed, with the first of the opponent types
InitAuto == Init /\ current_opponent_type = opponent_types[1]

\* the condition under which update calls play_round on auto-play once the
\* timers have run out; play_round then always has a step to take
AutoPlayDue == state = "BATTLE" /\ auto_play /\ round_number < max_rounds

\* update runs in every frame, so a round that auto-play is due to play is
\* played: weak fairness of AutoPlayRound, WF_vars(AutoPlayRound), with
\* ENABLED <<AutoPlayRound>>_vars written out as AutoPlayDue
SpecAuto ==
    /\ InitAuto
    /\ [][NextAuto]_vars
    /\ ([]<>~AutoPlayDue \/ []<><<AutoPlayRound>>_vars)

(***************************************************************************)
(* A match against the "aggressive" opponent: the battle is started on a   *)
(* freshly constructed game whose opponent is the aggressive one, with the *)
(* source's round limit of 25, and rounds are played from the next-round   *)
(* button.  Explored are the first MatchRounds rounds of the matches in    *)
(* which each player cooperates at most MaxCoop times.                     *)
(***************************************************************************)
InitAggressive ==
    /\ state = "BATTLE"
    /\ round_number = 0
    /\ max_rounds = 25
    /\ strategy_display = ""
    /\ payoffs = PayoffMatrix
    /\ current_opponent_type = "aggressive"
    /\ adaptive_ai = reset(PowerfulAdaptiveAI)
    /\ opponent_ai = opponent_reset(StrategicOpponentAI("aggressive"))
    /\ player1_score = 0
    /\ player2_score = 0
    /\ history = << >>
    /\ adaptive_wins = 0
    /\ opponent_wins = 0
    /\ ties = 0
    /\ auto_play = FALSE
    /\ call = ""
    /\ arg = ""
    /\ ret = ""

AggressiveRound ==
    /\ round_number < MatchRounds
    /\ PlayRound
    /\ Count(adaptive_ai'.my_history, "C") <= MaxCoop
    /\ Count(adaptive_ai'.opp_history, "C") <= MaxCoop

NextAggressive == AggressiveRound

SpecAggressive == InitAggressive /\ [][NextAggressive]_vars

(***************************************************************************)
(* Updates of the Bayesian prior alone: any sequence of                    *)
(* update_bayesian_prior calls on a freshly constructed agent.             *)
(***************************************************************************)
UpdatePrior ==
    /\ \E move \in Moves : adaptive_ai' = update_bayesian_prior(adaptive_ai, move)
    /\ UNCHANGED <<state, round_number, max_rounds, strategy_display, payoffs,
                   current_opponent_type, opponent_ai, player1_score,
                   player2_score, history, adaptive_wins, opponent_wins, ties,
                   auto_play, call, arg, ret>>

NextPrior == UpdatePrior

\* the opponent plays no part in the updates: one opponent type is enough
InitPrior == Construct(25) /\ current_opponent_type = opponent_types[1]

SpecPrior == InitPrior /\ [][NextPrior]_vars

(***************************************************************************)
(* The ledger alone: any sequence of at most MaxRecords                    *)
(* record_strategy_performance calls on a freshly constructed analyzer.    *)
(***************************************************************************)
MaxRecords == 4

\* the number of uses recorded in the ledger, over all strategies
TotalUses(analyzer) ==
    LET n == Len(available_strategies)
        sum[i \in 0 .. n] ==
            IF i = 0 THEN 0
            ELSE sum[i - 1] + analyzer.strategy_performance[available_strategies[i]].uses
    IN  sum[n]

RecordStrategyPerformance ==
    /\ TotalUses(adaptive_ai.analyzer) < MaxRecords
    /\ \E strategy \in Strategies, won_round \in BOOLEAN :
           /\ call' = "record_strategy_performance"
           /\ arg' = <<strategy, won_round>>
           /\ ret' = ""
           /\ adaptive_ai' = [adaptive_ai EXCEPT !.analyzer =
                  record_strategy_performance(adaptive_ai.analyzer, strategy, won_round)]
    /\ UNCHANGED <<state, round_number, max_rounds, strategy_display, payoffs,
                   current_opponent_type, opponent_ai, player1_score,
                   player2_score, history, adaptive_wins, opponent_wins, ties,
                   auto_play>>

NextLedger == RecordStrategyPerformance

InitLedger == Construct(25) /\ current_opponent_type = opponent_types[1]

SpecLedger == InitLedger /\ [][NextLedger]_vars

\* no method has been called yet
Idle == call = ""

(***************************************************************************)
(* Single calls on the analyzer.  The analyzer has one of the ledgers      *)
(* below, each the result of some record_strategy_performance calls; one   *)
(* method is called once, on an opponent history of at most AnalyzerLen    *)
(* moves.                                                                  *)
(***************************************************************************)
AnalyzerLen == 6

AnalyzerHistories == UNION {[1 .. k -> Moves] : k \in 0 .. AnalyzerLen}

\* (my_score, opp_score) with score differentials 0, -5 and -6
ScorePairs == {<<10, 10>>, <<5, 10>>, <<4, 10>>}

EmptyLedger == [s \in Strategies |-> [wins |-> 0, uses |-> 0]]

\* the empty ledger; the ledgers with one strategy used once; two ledgers on
\* which a regime's two products are equal
Ledgers ==
    {EmptyLedger}
    \cup {[EmptyLedger EXCEPT ![s] = [wins |-> w, uses |-> 1]] :
              s \in Strategies, w \in {0, 1}}
    \cup {[EmptyLedger EXCEPT !["adaptive"] = [wins |-> 2, uses |-> 3],
                              !["fuzzy"] = [wins |-> 5, uses |-> 6]],
          [EmptyLedger EXCEPT !["adaptive"] = [wins |-> 1, uses |-> 4]]}

InitAnalyzer ==
    \E ledger \in Ledgers :
        /\ state = "INTRO"
        /\ round_number = 0
        /\ max_rounds = 25
        /\ strategy_display = ""
        /\ payoffs = PayoffMatrix
        /\ current_opponent_type = opponent_types[1]
        /\ adaptive_ai = [PowerfulAdaptiveAI EXCEPT
                             !.analyzer.strategy_performance = ledger]
        /\ opponent_ai = StrategicOpponentAI(current_opponent_type)
        /\ player1_score = 0
        /\ player2_score = 0
        /\ history = << >>
        /\ adaptive_wins = 0
        /\ opponent_wins = 0
        /\ ties = 0
        /\ auto_play = FALSE
        /\ call = ""
        /\ arg = ""
        /\ ret = ""

\* a call of `method` on the analyzer with the arguments and draws `input`,
\* returning `value`
AnalyzerCalled(method, input, value) ==
    /\ call' = method
    /\ arg' = input
    /\ ret' = value
    /\ UNCHANGED <<state, round_number, max_rounds, strategy_display, payoffs,
                   current_opponent_type, adaptive_ai, opponent_ai,
                   player1_score, player2_score, history, adaptive_wins,
                   opponent_wins, ties,
                   auto_play>>

CallAnalyzeOpponent ==
    /\ Idle
    /\ \E opp_history \in AnalyzerHistories, scores \in ScorePairs,
          r_noise \in Draws, r_choice \in Draws :
           AnalyzerCalled("analyze_opponent",
                          [opp_history |-> opp_history,
                           my_score |-> scores[1], opp_score |-> scores[2],
                           r_noise |-> r_noise, r_choice |-> r_choice],
                          analyze_opponent_drawn(adaptive_ai.analyzer, opp_history,
                                                 scores[1], scores[2],
                                                 r_noise, r_choice))

CallAnalysisConfidence ==
    /\ Idle
    /\ \E opp_history \in AnalyzerHistories :
           AnalyzerCalled("calculate_analysis_confidence",
                          [opp_history |-> opp_history],
                          calculate_analysis_confidence(opp_history))

CallPatternConsistency ==
    /\ Idle
    /\ \E opp_history \in AnalyzerHistories :
           AnalyzerCalled("calculate_pattern_consistency",
                          [opp_history |-> opp_history],
                          calculate_pattern_consistency(opp_history))

NextAnalyzer ==
    \/ CallAnalyzeOpponent
    \/ CallAnalysisConfidence
    \/ CallPatternConsistency

SpecAnalyzer == InitAnalyzer /\ [][NextAnalyzer]_vars

(***************************************************************************)
(* Single calls.  The agents are taken after some rounds of a match: the   *)
(* two histories are any pair of equal length up to MaxLen, or a pair of   *)
(* periodic histories of equal length up to LongLen; the adaptive agent's  *)
(* prior, loss counter, strategy and cooldown and the opponent's type are  *)
(* drawn from the values below.  One method is then called once.           *)
(***************************************************************************)
Histories(n) == UNION {[1 .. k -> Moves] : k \in 0 .. n}

Periodic(word, n) == [i \in 1 .. n |-> word[((i - 1) % Len(word)) + 1]]

\* pairs of histories of one match, chosen for the cases they bring about:
\* eleven own defections against an opponent whose last two moves, CC, were
\* followed once by D and once by C; five rounds scoring 10 of 25 with two
\* defections against a Cooperate, a comprehensive success of exactly 0.4
ChosenPairs ==
    { <<[i \in 1 .. 11 |-> "D"],
        <<"D", "D", "C", "D", "C", "C", "D", "D", "C", "C", "C">>>>,
      <<<<"C", "D", "D", "C", "C">>, <<"D", "C", "C", "D", "D">>>> }

HistoryPairs ==
    {<<my, opp>> \in Histories(MaxLen) \X Histories(MaxLen) : Len(my) = Len(opp)}
    \cup {<<Periodic(w1, n), Periodic(w2, n)>> :
              w1 \in {<<"C">>, <<"D">>, <<"C", "D">>},
              w2 \in {<<"C">>, <<"D">>, <<"C", "D">>, <<"D", "C">>,
                      <<"C", "C", "D">>, <<"D", "D", "C">>},
              n \in (MaxLen + 1) .. LongLen}
    \cup ChosenPairs

\* the match history of the rounds in which my and opp were played
MatchHistory(my, opp) ==
    [i \in 1 .. Len(my) |->
        <<my[i], opp[i], PayoffMatrix[<<my[i], opp[i]>>][1],
          PayoffMatrix[<<my[i], opp[i]>>][2]>>]

\* the sum of the k-th components of the entries of a match history
Total(h, k) ==
    LET sum[i \in 0 .. Len(h)] == IF i = 0 THEN 0 ELSE sum[i - 1] + h[i][k]
    IN  sum[Len(h)]

InitCall ==
    \E pair \in HistoryPairs, prior \in {50000, 500000, 950000}, losses \in {0, 2} :
        \* adaptive_decision counts its first loss in the fourth round at
        \* the earliest, and its second in the fifth
        /\ losses > 0 => Len(pair[1]) >= 5
        /\ state = "BATTLE"
        /\ round_number = Len(pair[1])
        /\ max_rounds = 25
        /\ strategy_display = ""
        /\ payoffs = PayoffMatrix
        /\ current_opponent_type = "random"
        /\ adaptive_ai = [PowerfulAdaptiveAI EXCEPT
                             !.my_history = pair[1],
                             !.opp_history = pair[2],
                             !.bayesian_prior = prior,
                             !.consecutive_losses = losses,
                             !.aggression_level = 300 + 100 * losses]
        /\ opponent_ai = [StrategicOpponentAI("random") EXCEPT
                             !.my_history = pair[2],
                             !.opp_history = pair[1]]
        /\ history = MatchHistory(pair[1], pair[2])
        /\ player1_score = Total(history, 3)
        /\ player2_score = Total(history, 4)
        /\ adaptive_wins = 0
        /\ opponent_wins = 0
        /\ ties = 0
        /\ auto_play = FALSE
        /\ call = ""
        /\ arg = ""
        /\ ret = ""

\* a call of `method` on the adaptive agent `ai`, leaving the agent
\* `after` and returning `value`
Called(method, ai, after, value) ==
    /\ call' = method
    /\ arg' = ai
    /\ adaptive_ai' = after
    /\ ret' = value
    /\ UNCHANGED <<state, round_number, max_rounds, strategy_display, payoffs,
                   current_opponent_type, opponent_ai, player1_score,
                   player2_score, history, adaptive_wins, opponent_wins, ties,
                   auto_play>>

CallMinimax ==
    /\ Idle
    /\ Called("minimax_decision", adaptive_ai, adaptive_ai, minimax_decision(adaptive_ai))

CallBayesian ==
    /\ Idle
    /\ Called("bayesian_decision", adaptive_ai, adaptive_ai, bayesian_decision(adaptive_ai))

CallPatternMatcher ==
    /\ Idle
    /\ Called("pattern_matcher_decision", adaptive_ai, adaptive_ai,
              pattern_matcher_decision(adaptive_ai))

CallMarkov ==
    /\ Idle
    /\ Called("markov_prediction", adaptive_ai, adaptive_ai, markov_prediction(adaptive_ai))

CallFuzzy ==
    /\ Idle
    /\ \E r \in Draws :
           Called("fuzzy_decision", adaptive_ai, adaptive_ai, fuzzy_decision(adaptive_ai, r))

CallTitForTat ==
    /\ Idle
    /\ \E r \in Draws :
           Called("tit_for_tat_decision", adaptive_ai, adaptive_ai,
                  tit_for_tat_decision(adaptive_ai, r))

CallAdaptive ==
    /\ Idle
    /\ \E r \in Draws :
           LET out == adaptive_decision(adaptive_ai, r)
           IN  Called("adaptive_decision", adaptive_ai, out.ai, out.move)

\* decide_move on the agent with a strategy and a cooldown it can have once
\* the analyzer has been consulted (from the fourth round on)
CallDecideMove ==
    /\ Idle
    /\ \E strategy \in Strategies, cooldown \in 0 .. 5 :
           /\ (strategy # "minimax" \/ cooldown > 0) => Len(adaptive_ai.opp_history) >= 4
           /\ LET ai == [adaptive_ai EXCEPT !.current_strategy = strategy,
                                            !.strategy_change_cooldown = cooldown]
              IN  \E out \in decide_move(ai, round_number, player1_score, player2_score) :
                      Called("decide_move", ai, out.ai, out.move)

\* type names outside opponent_types
UnknownTypes == {"", "Random", "grim_trigger"}

\* decide_move of an opponent of a known or an unknown type
CallOpponentDecideMove ==
    /\ Idle
    /\ \E ai_type \in OpponentTypes \cup UnknownTypes, r \in Draws :
           LET ai == [StrategicOpponentAI(ai_type) EXCEPT
                          !.my_history = opponent_ai.my_history,
                          !.opp_history = opponent_ai.opp_history]
           IN  /\ call' = "opponent_decide_move"
               /\ arg' = ai
               /\ opponent_ai' = ai
               /\ current_opponent_type' = ai_type
               /\ ret' = opponent_decide_move(ai, round_number, player2_score,
                                              player1_score, r)
               /\ UNCHANGED <<state, round_number, max_rounds, strategy_display,
                              payoffs, adaptive_ai, player1_score, player2_score,
                              history, adaptive_wins, opponent_wins, ties,
                              auto_play>>

\* StrategicOpponentAI(ai_type), with a known or an unknown type name
CallConstructOpponent ==
    /\ Idle
    /\ \E ai_type \in OpponentTypes \cup UnknownTypes :
           /\ call' = "StrategicOpponentAI"
           /\ arg' = ai_type
           /\ ret' = StrategicOpponentAI(ai_type)
           /\ UNCHANGED <<state, round_number, max_rounds, strategy_display,
                          payoffs, current_opponent_type, adaptive_ai,
                          opponent_ai, player1_score, player2_score, history,
                          adaptive_wins, opponent_wins, ties,
                          auto_play>>

NextCall ==
    \/ CallMinimax
    \/ CallBayesian
    \/ CallPatternMatcher
    \/ CallMarkov
    \/ CallFuzzy
    \/ CallTitForTat
    \/ CallAdaptive
    \/ CallDecideMove
    \/ CallOpponentDecideMove
    \/ CallConstructOpponent

SpecCall == InitCall /\ [][NextCall]_vars

(***************************************************************************)
(* Properties                                                              *)
(***************************************************************************)
\* a step in which play_round plays a round
RoundPlayed == round_number' = round_number + 1

\* C1: in every reachable state of the game the two histories of the
\* adaptive agent and of the current opponent all have round_number entries,
\* one per round played in the current match.
C1_HistoriesMatchRounds ==
    /\ Len(adaptive_ai.my_history) = round_number
    /\ Len(adaptive_ai.opp_history) = round_number
    /\ Len(opponent_ai.my_history) = round_number
    /\ Len(opponent_ai.opp_history) = round_number

\* C2: every round played by play_round records one use of the strategy the
\* adaptive agent used in it, and one win iff its payoff of the round is at
\* least the opponent's; so the uses in the ledger add up to the rounds
\* played.
C2_LedgerRecordsRound ==
    [][RoundPlayed =>
          LET used == adaptive_ai'.current_strategy
              entry == history'[Len(history')]
              ledger == adaptive_ai'.analyzer.strategy_performance
              uses[i \in 0 .. Len(available_strategies)] ==
                  IF i = 0 THEN 0
                  ELSE uses[i - 1] + ledger[available_strategies[i]].uses
          IN  /\ adaptive_ai'.analyzer =
                     record_strategy_performance(adaptive_ai.analyzer, used,
                                                 entry[3] >= entry[4])
              /\ uses[Len(available_strategies)] = round_number']_vars

\* C3: every decide_move call of the adaptive agent leaves the prior that
\* update_bayesian_prior computes from the prior before the call and the
\* move the call returns, whichever path the call takes.
C3_PriorFollowsMove ==
    [][RoundPlayed =>
          adaptive_ai'.bayesian_prior =
              update_bayesian_prior(adaptive_ai,
                                    LastOf(adaptive_ai'.my_history)).bayesian_prior]_vars

\* C4: each of the six decision algorithms, the Markov prediction, the
\* adaptive agent's decide_move and every opponent's decide_move returns C or
\* D, and raises nothing, on every pair of equal-length histories, agent
\* state and draw.
C4_ReturnsMove == call \notin {"", "StrategicOpponentAI"} => ret \in Moves

\* bayesian_decision has been called on empty histories, where the
\* likelihood's denominator min(3, len) is 0, and returned Cooperate
C4_Witness ==
    /\ call = "bayesian_decision"
    /\ arg.opp_history = << >>
    /\ ret = "C"

\* C5: from the initial prior 0.5, after any sequence of
\* update_bayesian_prior calls the prior is within [0.05, 0.95].
C5_PriorInRange ==
    /\ 50000 <= adaptive_ai.bayesian_prior
    /\ adaptive_ai.bayesian_prior <= 950000

\* the prior has grown from 0.5 up to the upper clamp
C5_Witness == adaptive_ai.bayesian_prior = 950000

\* C6: a decide_move call consults the analyzer iff the cooldown is <= 0, the
\* opponent history has at least 3 moves and the round number is a multiple
\* of 3 or the history has fewer than 8 moves.  When it does, either the
\* strategy becomes a different, recommended one and the cooldown an integer
\* in 2..5, or the recommended strategy is the current one and strategy and
\* cooldown stay; when it does not, the strategy stays and the cooldown
\* becomes max(0, cooldown - 1).
C6_CooldownStateMachine ==
    call = "decide_move" =>
        LET eligible == /\ arg.strategy_change_cooldown <= 0
                        /\ Len(arg.opp_history) >= 3
                        /\ (round_number % 3 = 0 \/ Len(arg.opp_history) < 8)
            recommended == analyze_opponent(arg.analyzer, arg.opp_history,
                                            player1_score, player2_score)
        IN  IF eligible
            THEN /\ adaptive_ai.current_strategy \in recommended
                 /\ IF adaptive_ai.current_strategy # arg.current_strategy
                    THEN adaptive_ai.strategy_change_cooldown \in 2 .. 5
                    ELSE adaptive_ai.strategy_change_cooldown
                             = arg.strategy_change_cooldown
            ELSE /\ adaptive_ai.current_strategy = arg.current_strategy
                 /\ adaptive_ai.strategy_change_cooldown
                        = IF arg.strategy_change_cooldown - 1 > 0
                          THEN arg.strategy_change_cooldown - 1 ELSE 0

\* a call that consulted the analyzer in the tenth round (round 9, nine moves
\* of history) and changed the strategy, with the longest cooldown
C6_Witness ==
    /\ call = "decide_move"
    /\ arg.strategy_change_cooldown = 0
    /\ round_number = 9
    /\ adaptive_ai.current_strategy # arg.current_strategy
    /\ adaptive_ai.strategy_change_cooldown = 5

\* C7 as stated: in a match against the aggressive opponent the strategy has
\* changed away from minimax, on every execution, once 10 rounds are played.
C7_SwitchWithinTenRounds == round_number >= 10 => strategy_display # ""

\* C7, amended: in a match against the aggressive opponent the strategy
\* changes only in a round whose decide_move call consults the analyzer,
\* which within the first 10 rounds are rounds 3 to 7 and round 9 (counted
\* from 0) with the cooldown at 0; the change is then shown and the cooldown
\* set in 2..5.  (That it changes within 10 rounds on some executions is the
\* witness; that it does not on others is what refutes the statement above.)
C7_SwitchOnlyWhenConsulted ==
    [][(/\ RoundPlayed
        /\ round_number < 10
        /\ adaptive_ai'.current_strategy # adaptive_ai.current_strategy) =>
          /\ round_number \in {3, 4, 5, 6, 7, 9}
          /\ adaptive_ai.strategy_change_cooldown = 0
          /\ adaptive_ai'.strategy_change_cooldown \in 2 .. 5
          /\ strategy_display' = StrategyTitle(adaptive_ai'.current_strategy)]_vars

\* the strategy has changed away from minimax within the first 10 rounds
C7_Witness ==
    /\ round_number <= 10
    /\ strategy_display # ""
    /\ adaptive_ai.current_strategy # "minimax"

\* C8: reset() leaves either agent equal to a freshly constructed agent of
\* its type (an opponent keeps its ai_type and personality), whatever rounds
\* were played before, and a second reset() changes nothing; start_battle,
\* which resets both agents, leaves them so.
C8_ResetRestoresFresh ==
    /\ [](/\ reset(adaptive_ai) = PowerfulAdaptiveAI
          /\ reset(reset(adaptive_ai)) = reset(adaptive_ai)
          /\ opponent_reset(opponent_ai) = StrategicOpponentAI(opponent_ai.ai_type)
          /\ opponent_reset(opponent_reset(opponent_ai)) = opponent_reset(opponent_ai))
    /\ [][(state = "MENU" /\ state' = "BATTLE") =>
             /\ adaptive_ai' = PowerfulAdaptiveAI
             /\ opponent_ai' = StrategicOpponentAI(opponent_ai.ai_type)]_vars

\* after a whole match the adaptive agent differs from a fresh one in its
\* histories, strategy, cooldown, loss counter, aggression and prior, and the
\* opponent in its histories
C8_Witness ==
    /\ Len(adaptive_ai.my_history) = MaxRounds
    /\ adaptive_ai.current_strategy # "minimax"
    /\ adaptive_ai.strategy_change_cooldown > 0
    /\ adaptive_ai.consecutive_losses > 0
    /\ adaptive_ai.aggression_level # 300
    /\ adaptive_ai.bayesian_prior # 500000
    /\ Len(opponent_ai.opp_history) = MaxRounds

\* C9: in a round the opponent's move is one that its decide_move returns on
\* its ai_type and on its histories as the previous round left them, whatever
\* the round number and the scores, so it does not depend on the move the
\* adaptive agent chooses in the round; both moves are appended to the
\* histories after both are chosen.
C9_OpponentSeesPreviousRounds ==
    [][RoundPlayed =>
          LET move1 == LastOf(adaptive_ai'.my_history)
              move2 == LastOf(opponent_ai'.my_history)
          IN  /\ move2 \in {opponent_decide_move(opponent_ai, 0, 0, 0, r) :
                                r \in Draws}
              /\ opponent_ai'.my_history = Append(opponent_ai.my_history, move2)
              /\ opponent_ai'.opp_history = Append(opponent_ai.opp_history, move1)
              /\ adaptive_ai'.my_history = Append(adaptive_ai.my_history, move1)
              /\ adaptive_ai'.opp_history = Append(adaptive_ai.opp_history, move2)]_vars

\* a tit-for-tat opponent has answered the adaptive agent's Defect of the
\* second round with the echo of its Cooperate of the first
C9_Witness ==
    /\ opponent_ai.ai_type = "tit_for_tat"
    /\ adaptive_ai.my_history = <<"C", "D">>
    /\ opponent_ai.my_history = <<"C", "C">>

\* C10: the payoff table is defined on the four move pairs with the values
\* (C,C) -> (3,3), (C,D) -> (0,5), (D,C) -> (5,0), (D,D) -> (1,1) and never
\* changes; each entry of the match history holds the table's payoffs of its
\* moves, and each player's score is the sum of its payoffs over the match
\* history.
C10_ScoresSumPayoffs ==
    /\ DOMAIN payoffs = Moves \X Moves
    /\ payoffs[<<"C", "C">>] = <<3, 3>>
    /\ payoffs[<<"C", "D">>] = <<0, 5>>
    /\ payoffs[<<"D", "C">>] = <<5, 0>>
    /\ payoffs[<<"D", "D">>] = <<1, 1>>
    /\ \A i \in 1 .. Len(history) :
           <<history[i][3], history[i][4]>>
               = IF history[i][1] = history[i][2]
                 THEN (IF history[i][1] = "C" THEN <<3, 3>> ELSE <<1, 1>>)
                 ELSE (IF history[i][1] = "C" THEN <<0, 5>> ELSE <<5, 0>>)
    /\ player1_score = Total(history, 3)
    /\ player2_score = Total(history, 4)

\* a match of MaxRounds rounds in which the adaptive agent was exploited
\* once and the scores differ
C10_Witness ==
    /\ Len(history) = MaxRounds
    /\ \E i \in 1 .. Len(history) : <<history[i][1], history[i][2]>> = <<"C", "D">>
    /\ player1_score # player2_score

\* C11: round_number never exceeds max_rounds; a round is played only below
\* the limit, and play_round at the limit ends the match: the state becomes
\* RESULTS, exactly one of adaptive_wins, opponent_wins and ties grows by one
\* as the total scores compare, and the agents, the scores, the match history
\* and round_number stay as they were.
C11_RoundLimit ==
    /\ [](round_number <= max_rounds)
    /\ [][RoundPlayed => round_number < max_rounds]_vars
    /\ [][(state = "BATTLE" /\ state' = "RESULTS") =>
             /\ round_number >= max_rounds
             /\ <<adaptive_wins', opponent_wins', ties'>> =
                    IF player1_score > player2_score
                    THEN <<adaptive_wins + 1, opponent_wins, ties>>
                    ELSE IF player2_score > player1_score
                    THEN <<adaptive_wins, opponent_wins + 1, ties>>
                    ELSE <<adaptive_wins, opponent_wins, ties + 1>>
             /\ UNCHANGED <<adaptive_ai, opponent_ai, player1_score,
                            player2_score, history, round_number>>]_vars

\* a match ended at the round limit and won by the opponent
C11_Witness ==
    /\ state = "RESULTS"
    /\ round_number = max_rounds
    /\ Len(history) = max_rounds
    /\ player2_score > player1_score
    /\ <<adaptive_wins, opponent_wins, ties>> = <<0, 1, 0>>

\* C12: each record_strategy_performance(strategy, won) call adds one to that
\* strategy's uses and one to its wins iff won, and leaves every other
\* strategy's entry alone; so 0 <= wins <= uses in every entry, and
\* success_rate = wins / max(1, uses) has a non-zero denominator, lies in
\* [0, 1] and is 0 for an unused strategy.
C12_LedgerCounts ==
    /\ [][call' = "record_strategy_performance" =>
             LET before == adaptive_ai.analyzer.strategy_performance
                 after  == adaptive_ai'.analyzer.strategy_performance
                 strategy == arg'[1]
                 won == arg'[2]
             IN  /\ after[strategy].uses = before[strategy].uses + 1
                 /\ after[strategy].wins =
                        before[strategy].wins + (IF won THEN 1 ELSE 0)
                 /\ \A other \in Strategies \ {strategy} :
                        after[other] = before[other]]_vars
    /\ [](\A s \in Strategies :
             LET entry == adaptive_ai.analyzer.strategy_performance[s]
                 rate == success_rate(adaptive_ai.analyzer, s)
             IN  /\ 0 <= entry.wins
                 /\ entry.wins <= entry.uses
                 /\ rate.d >= 1
                 /\ rate.d = Max(1, entry.uses)
                 /\ rate.n = entry.wins
                 /\ 0 <= rate.n
                 /\ rate.n <= rate.d
                 /\ (entry.uses = 0 => rate.n = 0))

\* a ledger with a strategy used twice and won once, one used and never won,
\* and one never used, after a lost use was recorded
C12_Witness ==
    /\ call = "record_strategy_performance"
    /\ arg[2] = FALSE
    /\ adaptive_ai.analyzer.strategy_performance["bayesian"] = [wins |-> 1, uses |-> 2]
    /\ adaptive_ai.analyzer.strategy_performance["fuzzy"] = [wins |-> 0, uses |-> 1]
    /\ adaptive_ai.analyzer.strategy_performance["minimax"] = [wins |-> 0, uses |-> 0]

\* C13: pattern_matcher_decision answers the last four opponent moves from
\* its table, whatever my_history and the earlier opponent moves are and with
\* no random draw: CCCC -> D, DDDD -> C, CDCD -> D, DCDC -> C, CCDC -> D,
\* DDCD -> C; any other tail of four is answered by markov_prediction, and an
\* opponent history shorter than four by minimax_decision.
C13_PatternTable ==
    call = "pattern_matcher_decision" =>
        LET h == arg.opp_history
            tail == IF Len(h) < 4 THEN << >> ELSE SubSeq(h, Len(h) - 3, Len(h))
        IN  /\ adaptive_ai = arg
            /\ Len(h) < 4 => ret = minimax_decision(arg)
            /\ tail = <<"C", "C", "C", "C">> => ret = "D"
            /\ tail = <<"D", "D", "D", "D">> => ret = "C"
            /\ tail = <<"C", "D", "C", "D">> => ret = "D"
            /\ tail = <<"D", "C", "D", "C">> => ret = "C"
            /\ tail = <<"C", "C", "D", "C">> => ret = "D"
            /\ tail = <<"D", "D", "C", "D">> => ret = "C"
            /\ (Len(h) >= 4 /\ tail \notin {<<"C", "C", "C", "C">>, <<"D", "D", "D", "D">>,
                                           <<"C", "D", "C", "D">>, <<"D", "C", "D", "C">>,
                                           <<"C", "C", "D", "C">>, <<"D", "D", "C", "D">>})
                   => ret = markov_prediction(arg)

\* the table answers C to a tail DDCD that markov_prediction would answer
\* with D
C13_Witness ==
    /\ call = "pattern_matcher_decision"
    /\ Len(arg.opp_history) >= 4
    /\ SubSeq(arg.opp_history, Len(arg.opp_history) - 3, Len(arg.opp_history))
           = <<"D", "D", "C", "D">>
    /\ ret = "C"
    /\ markov_prediction(arg) = "D"

\* C14: on an opponent history shorter than three moves analyze_opponent
\* returns minimax whatever the scores, the ledger and the draws are, and the
\* adaptive agent's current_strategy is minimax throughout the first three
\* rounds of a match.
C14_ShortHistoryMinimax ==
    /\ Len(adaptive_ai.opp_history) < 3 =>
           \A ledger \in Ledgers, scores \in ScorePairs :
               analyze_opponent([adaptive_ai.analyzer EXCEPT
                                     !.strategy_performance = ledger],
                                adaptive_ai.opp_history, scores[1], scores[2])
                   = {"minimax"}
    /\ (state = "BATTLE" /\ round_number <= 3) =>
           adaptive_ai.current_strategy = "minimax"

\* three rounds played against an opponent that defected in the first two
C14_Witness ==
    /\ state = "BATTLE"
    /\ round_number = 3
    /\ Len(adaptive_ai.opp_history) = 3
    /\ SubSeq(adaptive_ai.opp_history, 1, 2) = <<"D", "D">>
    /\ adaptive_ai.current_strategy = "minimax"
    /\ analyze_opponent(adaptive_ai.analyzer, SubSeq(adaptive_ai.opp_history, 1, 2),
                        player1_score, player2_score) = {"minimax"}

\* C15: calculate_pattern_consistency returns exactly 0.5 on a history
\* shorter than three moves, and otherwise 1 - (number of distinct pairs of
\* consecutive moves) / min(4, number of pairs of consecutive moves), a value
\* in [0, 1].
C15_PatternConsistency ==
    call = "calculate_pattern_consistency" =>
        LET h == arg.opp_history
            pairs == Len(h) - 1
            distinct == Cardinality({<<h[i], h[i + 1]>> : i \in 1 .. pairs})
            cap == IF pairs < 4 THEN pairs ELSE 4
        IN  /\ ret.d > 0
            /\ 0 <= ret.n
            /\ ret.n <= ret.d
            /\ Len(h) < 3 => 2 * ret.n = ret.d
            /\ Len(h) >= 3 => ret.n * cap = (cap - distinct) * ret.d

\* six alternating moves: five pairs, two of them distinct, consistency
\* 1 - 2/4
C15_Witness ==
    /\ call = "calculate_pattern_consistency"
    /\ arg.opp_history = <<"C", "D", "C", "D", "C", "D">>
    /\ 2 * ret.n = ret.d

\* C16: constructing an opponent with a type name outside the nine known
\* names does not fail and gives it the profile of "random": coop_bias 0.5,
\* forgiveness 0.5, aggression 0.5, adaptability 1.0.
C16_UnknownTypeIsRandom ==
    (call = "StrategicOpponentAI" /\ arg \notin OpponentTypes) =>
        /\ ret = [ai_type     |-> arg,
                  my_history  |-> << >>,
                  opp_history |-> << >>,
                  personality |-> [coop_bias |-> 500, forgiveness |-> 500,
                                   aggression |-> 500, adaptability |-> 1000]]
        /\ ret.personality = initialize_personality("random")

\* an opponent constructed with the unknown type name grim_trigger
C16_Witness ==
    /\ call = "StrategicOpponentAI"
    /\ arg = "grim_trigger"
    /\ ret.ai_type = "grim_trigger"
    /\ ret.personality.adaptability = 1000

\* C17: on an opponent history of three moves or more, the confidence the
\* analyzer uses for its noise decision is the average of
\* pattern_consistency(history) and min(1, len(history) / 20): that is what
\* calculate_analysis_confidence returns, and analyze_opponent takes the
\* noise path exactly when its draw exceeds 0.85 times that average.
C17_ConfidenceIsAverage ==
    LET h == arg.opp_history
        consistency == calculate_pattern_consistency(h)
        quality == IF Len(h) < 20 THEN Len(h) ELSE 20
        \* (consistency + quality / 20) / 2
        average == [n |-> 20 * consistency.n + quality * consistency.d,
                    d |-> 40 * consistency.d]
    IN  /\ (call = "calculate_analysis_confidence" /\ Len(h) >= 3) =>
               ret.n * average.d = average.n * ret.d
        /\ (call = "analyze_opponent" /\ Len(h) >= 3) =>
               ret = IF arg.r_noise * average.d
                          > adaptive_ai.analyzer.analysis_accuracy * average.n
                     THEN get_weighted_random_strategy(adaptive_ai.analyzer,
                                                       arg.r_choice)
                     ELSE best_strategy(adaptive_ai.analyzer, h,
                                        arg.my_score, arg.opp_score)

\* C18: on the non-noise path, on an opponent history of three moves or
\* more, analyze_opponent takes the candidates of the first matching regime
\* among (1) coop_rate > 0.8 and consistency > 0.7: pattern_matcher 0.9,
\* adaptive 0.6; (2) coop_rate < 0.2 and consistency > 0.6: minimax 0.9,
\* bayesian 0.7; (3) consistency < 0.4: adaptive 0.8, fuzzy 0.7;
\* (4) |coop_rate - 0.5| < 0.2 and my_score - opp_score < -5: minimax 0.8,
\* pattern_matcher 0.6; (5) otherwise: adaptive 0.7, bayesian 0.6; multiplies
\* each score by 0.5 + wins / max(1, uses) and returns the candidate with the
\* highest product, the first-listed one on equal products.
C18_RegimeSelection ==
    LET h == arg.opp_history
        confidence == calculate_analysis_confidence(h)
        ledger == adaptive_ai.analyzer.strategy_performance
        c == Cardinality({i \in 1 .. Len(h) : h[i] = "C"})
        len == Len(h)
        consistency == calculate_pattern_consistency(h)
        above(tenths) == 10 * consistency.n > tenths * consistency.d
        below(tenths) == 10 * consistency.n < tenths * consistency.d
        middling == 10 * (2 * c - len) < 4 * len /\ 10 * (len - 2 * c) < 4 * len
        regime ==
            IF 10 * c > 8 * len /\ above(7)
            THEN <<"pattern_matcher", 9, "adaptive", 6>>
            ELSE IF 10 * c < 2 * len /\ above(6)
            THEN <<"minimax", 9, "bayesian", 7>>
            ELSE IF below(4)
            THEN <<"adaptive", 8, "fuzzy", 7>>
            ELSE IF middling /\ arg.my_score - arg.opp_score < -5
            THEN <<"minimax", 8, "pattern_matcher", 6>>
            ELSE <<"adaptive", 7, "bayesian", 6>>
        uses(s) == IF ledger[s].uses < 1 THEN 1 ELSE ledger[s].uses
        \* the two products over the common denominator
        \* 20 * uses(first) * uses(second)
        first  == regime[2] * (uses(regime[1]) + 2 * ledger[regime[1]].wins)
                            * uses(regime[3])
        second == regime[4] * (uses(regime[3]) + 2 * ledger[regime[3]].wins)
                            * uses(regime[1])
    IN  (/\ call = "analyze_opponent"
         /\ len >= 3
         /\ arg.r_noise * confidence.d
                <= adaptive_ai.analyzer.analysis_accuracy * confidence.n)
        => ret = IF second > first THEN regime[3] ELSE regime[1]

\* C19: on a non-empty opponent history minimax_decision returns Cooperate
\* iff ev_coop > ev_defect, where weighted_coop = 0.4 * overall cooperation
\* rate + 0.6 * cooperation rate of the last three moves, ev_coop =
\* 3 * weighted_coop, ev_defect = weighted_coop * 5 * (1 - 0.4) +
\* (1 - weighted_coop) * 1, and ev_defect is multiplied by 0.9 when the
\* self-moderation condition holds (an own history of more than 10 rounds,
\* more than 70% of them Defect); on an empty opponent history it returns
\* Cooperate.
C19_MinimaxExpectedValues ==
    call = "minimax_decision" =>
        LET opp == arg.opp_history
            my == arg.my_history
            len == Len(opp)
            last == IF len < 3 THEN len ELSE 3
            overall == Cardinality({i \in 1 .. len : opp[i] = "C"})
            recent == Cardinality({i \in (len - last + 1) .. len : opp[i] = "C"})
            \* weighted_coop = weighted / unit
            weighted == 4 * overall * last + 6 * recent * len
            unit == 10 * len * last
            \* expected values in units of 1 / (10 * unit)
            ev_coop == 30 * weighted
            ev_defect == 5 * 6 * weighted + 10 * (unit - weighted)
            defections == Cardinality({i \in 1 .. Len(my) : my[i] = "D"})
            moderated == Len(my) > 10 /\ 10 * defections > 7 * Len(my)
        IN  /\ adaptive_ai = arg
            /\ arg.risk_tolerance = 400
            /\ len = 0 => ret = "C"
            /\ (len > 0 /\ ~moderated) => (ret = "C" <=> ev_coop > ev_defect)
            /\ (len > 0 /\ moderated) => (ret = "C" <=> 10 * ev_coop > 9 * ev_defect)
            /\ ret \in Moves

\* eleven defections against eleven cooperations: ev_coop = 3 exceeds the
\* dampened ev_defect = 2.7
C19_Witness ==
    /\ call = "minimax_decision"
    /\ arg.my_history = [i \in 1 .. 11 |-> "D"]
    /\ arg.opp_history = [i \in 1 .. 11 |-> "C"]
    /\ ret = "C"

\* C20: minimax_decision multiplies ev_defect by 0.9 whenever the caller's
\* own history has 10 or more rounds, more than 70% of them Defect, at
\* exactly 10 rounds too, and never otherwise.
C20_DampeningFromTenRounds ==
    (call = "minimax_decision" /\ Len(arg.opp_history) > 0) =>
        LET undamped == minimax_decision_undamped(arg)
            \* ev_coop > 0.9 * ev_defect, for 3 * weighted_coop against
            \* 0.9 * (2 * weighted_coop + 1): weighted_coop > 0.75
            recent == recent_coop(arg.opp_history)
            damped == IF 4 * (2 * Count(arg.opp_history, "C") * recent.d
                                + 3 * recent.n * Len(arg.opp_history))
                           > 3 * (5 * Len(arg.opp_history) * recent.d)
                      THEN "C" ELSE "D"
            my == arg.my_history
        IN  ret = IF Len(my) >= 10 /\ 10 * Count(my, "D") > 7 * Len(my)
                  THEN damped
                  ELSE undamped

\* C21: on an opponent history of three moves or more markov_prediction
\* tallies the moves that followed each earlier occurrence of the last two
\* moves; a move with a strict majority is answered by its opposite, and
\* tied tallies, or no earlier occurrence, by the result of minimax_decision.
C21_MarkovMajority ==
    (call = "markov_prediction" /\ Len(arg.opp_history) >= 3) =>
        LET h == arg.opp_history
            n == Len(h)
            followed(m) == Cardinality({i \in 3 .. n :
                               /\ h[i - 2] = h[n - 1]
                               /\ h[i - 1] = h[n]
                               /\ h[i] = m})
        IN  ret = IF followed("C") > followed("D") THEN "D"
                  ELSE IF followed("D") > followed("C") THEN "C"
                  ELSE minimax_decision(arg)

\* C22: tit_for_tat_decision returns Cooperate on an empty opponent history
\* and, on every draw, after a Cooperate; after a Defect it returns Cooperate
\* exactly on the draws below 0.1 + 0.3 * (the opponent's overall cooperation
\* rate), a threshold in [0.1, 0.4), and Defect on the others, so both moves
\* can be returned after a Defect.
C22_TitForTatForgiveness ==
    call = "tit_for_tat_decision" =>
        LET h == arg.opp_history
            len == Len(h)
            cooperations == Cardinality({i \in 1 .. len : h[i] = "C"})
            \* the threshold times 1000 * len
            threshold == 100 * len + 300 * cooperations
            returned == {tit_for_tat_decision(arg, r) : r \in Draws}
        IN  /\ adaptive_ai = arg
            /\ ret \in returned
            /\ len = 0 => returned = {"C"}
            /\ (len > 0 /\ h[len] = "C") => returned = {"C"}
            /\ (len > 0 /\ h[len] = "D") =>
                   /\ \A r \in Draws :
                          tit_for_tat_decision(arg, r) =
                              IF r * len < threshold THEN "C" ELSE "D"
                   /\ 100 * len <= threshold
                   /\ threshold < 400 * len
                   /\ returned = {"C", "D"}

\* a Defect forgiven: Cooperate returned after CCD
C22_Witness ==
    /\ call = "tit_for_tat_decision"
    /\ arg.opp_history = <<"C", "C", "D">>
    /\ ret = "C"

C24_BayesianPosterior ==
    (call = "bayesian_decision" /\ Len(arg.opp_history) > 0) =>
        LET h == arg.opp_history
            k == IF Len(h) < 3 THEN Len(h) ELSE 3
            cooperations == Cardinality({i \in (Len(h) - k + 1) .. Len(h) : h[i] = "C"})
            p == arg.bayesian_prior
            \* posterior = numerator / denominator, both times k * 1000000
            numerator == cooperations * p
            denominator == cooperations * p + (k - cooperations) * (1000000 - p)
            distance == IF 2 * numerator > denominator
                        THEN 2 * numerator - denominator
                        ELSE denominator - 2 * numerator
        IN  /\ 50000 <= p /\ p <= 950000
            /\ denominator > 0
            /\ ret = IF 10 * distance > 6 * denominator
                     THEN (IF 2 * numerator > denominator THEN "C" ELSE "D")
                     ELSE minimax_decision(arg)
            /\ adaptive_ai.bayesian_prior = p
            /\ adaptive_ai = arg

\* prior 0.95 and one Cooperate in the last three moves: posterior 0.905,
\* Cooperate returned where minimax_decision returns Defect
C24_Witness ==
    /\ call = "bayesian_decision"
    /\ arg.bayesian_prior = 950000
    /\ arg.opp_history = <<"D", "C", "D">>
    /\ ret = "C"
    /\ minimax_decision(arg) = "D"

\* C25: with success = min(1, 0.7 * (realized score / (5 * rounds)) + 0.3 *
\* (fraction of rounds with own D against opponent C)), 0.5 on fewer than two
\* own moves, adaptive_decision: for success > 0.7 returns the caller's last
\* move or D and changes no counter; for success < 0.4 adds one to
\* consecutive_losses and 0.1 to aggression_level, capped at 0.8, and returns
\* D on every draw once consecutive_losses > 2, otherwise C or D by draw; in
\* the middle band sets consecutive_losses to 0 and returns C or D by draw.
\* consecutive_losses >= 0 and 0.3 <= aggression_level <= 0.8 always hold.
C25_AdaptiveBands ==
    /\ adaptive_ai.consecutive_losses >= 0
    /\ 300 <= adaptive_ai.aggression_level
    /\ adaptive_ai.aggression_level <= 800
    /\ call = "adaptive_decision" =>
           LET my == arg.my_history
               opp == arg.opp_history
               rounds == Len(my)
               payoff(i) == PayoffMatrix[<<my[i], opp[i]>>][1]
               score[i \in 0 .. rounds] ==
                   IF i = 0 THEN 0 ELSE score[i - 1] + payoff(i)
               exploited == Cardinality({i \in 1 .. rounds :
                                             my[i] = "D" /\ opp[i] = "C"})
               \* success = uncapped / (50 * rounds), capped at 1
               uncapped == 7 * score[rounds] + 15 * exploited
               success == IF rounds < 2 THEN [n |-> 1, d |-> 2]
                          ELSE IF uncapped > 50 * rounds THEN [n |-> 1, d |-> 1]
                          ELSE [n |-> uncapped, d |-> 50 * rounds]
               high == 10 * success.n > 7 * success.d
               low == 10 * success.n < 4 * success.d
               lost == [arg EXCEPT
                            !.consecutive_losses = arg.consecutive_losses + 1,
                            !.aggression_level =
                                IF arg.aggression_level + 100 > 800 THEN 800
                                ELSE arg.aggression_level + 100]
               outcomes == {adaptive_decision(arg, r) : r \in Draws}
           IN  /\ [ai |-> adaptive_ai, move |-> ret] \in outcomes
               /\ high => \A out \in outcomes :
                              /\ out.ai = arg
                              /\ out.move \in {my[rounds], "D"}
               /\ low => \A out \in outcomes :
                             /\ out.ai = lost
                             /\ out.move \in Moves
                             /\ lost.consecutive_losses > 2 => out.move = "D"
               /\ (low /\ lost.consecutive_losses <= 2) =>
                      {out.move : out \in outcomes} = Moves
               /\ (~high /\ ~low) =>
                      /\ \A out \in outcomes :
                             /\ out.ai = [arg EXCEPT !.consecutive_losses = 0]
                             /\ out.move \in Moves
                      /\ Len(opp) > 0 => {out.move : out \in outcomes} = Moves

\* C26: with risk_tolerance 0.4, ev_defect - ev_coop = 1 - weighted_coop >= 0,
\* so minimax_decision returns Defect on every non-empty opponent history
\* when ev_defect is not dampened (an own history of at most 10 moves, or at
\* most 70% own defections); it returns Cooperate only on an empty opponent
\* history or, dampened, when weighted_coop > 0.75.
C26_MinimaxDefects ==
    call = "minimax_decision" =>
        LET opp == arg.opp_history
            my == arg.my_history
            len == Len(opp)
            last == IF len < 3 THEN len ELSE 3
            overall == Cardinality({i \in 1 .. len : opp[i] = "C"})
            recent == Cardinality({i \in (len - last + 1) .. len : opp[i] = "C"})
            \* weighted_coop = weighted / unit
            weighted == 4 * overall * last + 6 * recent * len
            unit == 10 * len * last
            \* expected values times 1000 * unit
            ev_coop == 3000 * weighted
            ev_defect == 5 * (1000 - arg.risk_tolerance) * weighted
                           + 1000 * (unit - weighted)
            defections == Cardinality({i \in 1 .. Len(my) : my[i] = "D"})
            dampened == Len(my) > 10 /\ 10 * defections > 7 * Len(my)
        IN  /\ arg.risk_tolerance = 400
            /\ len > 0 =>
                   /\ ev_defect - ev_coop = 1000 * (unit - weighted)
                   /\ unit - weighted >= 0
                   /\ ~dampened => ret = "D"
                   /\ ret = "C" <=> (dampened /\ 4 * weighted > 3 * unit)
            /\ len = 0 => ret = "C"

\* five own cooperations against five cooperations: weighted_coop = 1 and no
\* dampening, Defect returned
C26_Witness ==
    /\ call = "minimax_decision"
    /\ arg.my_history = [i \in 1 .. 5 |-> "C"]
    /\ arg.opp_history = [i \in 1 .. 5 |-> "C"]
    /\ ret = "D"

\* C27: in every match current_strategy is one of the six strategies and
\* strategy_change_cooldown is in 0..5; a round changes current_strategy only
\* when the opponent history has at least 3 moves and the cooldown is 0, and
\* then leaves the cooldown at 2 or more; a round entered with a cooldown of
\* 1 or more keeps current_strategy and lowers the cooldown by one.  Hence the
\* two rounds after a change are entered with a cooldown of at least 2 and at
\* least 1 and change nothing: two changes are at least 3 rounds apart.
C27_Hysteresis ==
    /\ [](/\ adaptive_ai.current_strategy \in Strategies
          /\ adaptive_ai.strategy_change_cooldown \in 0 .. 5)
    /\ [][(/\ RoundPlayed
           /\ adaptive_ai'.current_strategy # adaptive_ai.current_strategy) =>
             /\ Len(adaptive_ai.opp_history) >= 3
             /\ adaptive_ai.strategy_change_cooldown = 0
             /\ adaptive_ai'.strategy_change_cooldown >= 2]_vars
    /\ [][(/\ RoundPlayed
           /\ adaptive_ai.strategy_change_cooldown >= 1) =>
             /\ adaptive_ai'.current_strategy = adaptive_ai.current_strategy
             /\ adaptive_ai'.strategy_change_cooldown =
                    adaptive_ai.strategy_change_cooldown - 1]_vars

\* the strategy changed in the fourth round with the cooldown drawn as 2, and
\* the two rounds after it were played: the seventh round may change it again
C27_Witness ==
    /\ round_number = 6
    /\ adaptive_ai.current_strategy # "minimax"
    /\ adaptive_ai.strategy_change_cooldown = 0

\* C28: calculate_pattern_consistency never exceeds 0.75 and exceeds 0.7 only
\* on a history of at least 5 moves that are all the same move; on no
\* non-empty history does fuzzy_decision take its third branch (consistency
\* > 0.7); analyze_opponent's first regime (pattern_matcher 0.9, adaptive
\* 0.6) is chosen only on an all-Cooperate history of at least 5 moves and
\* its second (minimax 0.9, bayesian 0.7) only on an all-Defect history of
\* at least 4 moves.
C28_ConsistencyCeiling ==
    LET single(h, move) == \A i \in 1 .. Len(h) : h[i] = move
    IN  /\ call = "calculate_pattern_consistency" =>
               LET h == arg.opp_history
               IN  /\ 4 * ret.n <= 3 * ret.d
                   /\ 10 * ret.n > 7 * ret.d =>
                          /\ Len(h) >= 5
                          /\ single(h, "C") \/ single(h, "D")
                   /\ Len(h) > 0 => fuzzy_branch(h) # 3
        /\ (call = "analyze_opponent" /\ Len(arg.opp_history) >= 3) =>
               LET h == arg.opp_history
                   regime == strategy_scores(h, arg.my_score, arg.opp_score)
               IN  /\ regime = << <<"pattern_matcher", 9>>, <<"adaptive", 6>> >> =>
                          Len(h) >= 5 /\ single(h, "C")
                   /\ regime = << <<"minimax", 9>>, <<"bayesian", 7>> >> =>
                          Len(h) >= 4 /\ single(h, "D")

\* five Defects: consistency 0.75, above 0.7, and fuzzy_decision's second
\* branch
C28_Witness ==
    /\ call = "calculate_pattern_consistency"
    /\ arg.opp_history = <<"D", "D", "D", "D", "D">>
    /\ 4 * ret.n = 3 * ret.d
    /\ fuzzy_branch(arg.opp_history) = 2

\* C29: the RESULTS state is entered only by play_round called with
\* round_number at max_rounds or above (here from the next-round button,
\* with auto-play off), a step that plays no round.  A battle on auto-play
\* with no further input stays in BATTLE and leaves the three match counters
\* as they are; it comes to have played max_rounds rounds, never more, and
\* from then on nothing changes.
C29_AutoPlayNeverEnds ==
    /\ [][(state # "RESULTS" /\ state' = "RESULTS") =>
             /\ ~auto_play
             /\ round_number >= max_rounds
             /\ round_number' = round_number]_vars
    /\ [][auto_play =>
             /\ state' = "BATTLE"
             /\ round_number < max_rounds
             /\ round_number' = round_number + 1
             /\ <<adaptive_wins', opponent_wins', ties'>> =
                    <<adaptive_wins, opponent_wins, ties>>]_vars
    /\ [](auto_play => state = "BATTLE" /\ round_number <= max_rounds)
    /\ auto_play ~> [](/\ auto_play
                       /\ state = "BATTLE"
                       /\ round_number = max_rounds
                       /\ Len(history) = max_rounds)

\* auto-play has played the match to its last round and the battle goes on
C29_Witness ==
    /\ auto_play
    /\ state = "BATTLE"
    /\ round_number = max_rounds
    /\ Len(history) = max_rounds
    /\ adaptive_wins + opponent_wins + ties = 0

\* C30: decide_move of an opponent whose ai_type is none of the nine known
\* names returns Cooperate on every history, score and draw, although the
\* agent carries the personality of "random", whose policy defects on half
\* of the draws; and decide_move of an opponent of any type leaves the agent
\* as the call found it.
C30_UnknownTypeCooperates ==
    call = "opponent_decide_move" =>
        /\ opponent_ai = arg
        /\ arg.ai_type \notin OpponentTypes =>
               /\ arg.personality = StrategicOpponentAI("random").personality
               /\ ret = "C"
               /\ \A r \in Draws :
                      opponent_decide_move(arg, round_number, player2_score,
                                           player1_score, r) = "C"
               /\ \E r \in Draws :
                      opponent_decide_move([arg EXCEPT !.ai_type = "random"],
                                           round_number, player2_score,
                                           player1_score, r) = "D"

\* an opponent of the unknown type "grim_trigger" cooperates after three
\* Defects of the adaptive agent
C30_Witness ==
    /\ call = "opponent_decide_move"
    /\ arg.ai_type = "grim_trigger"
    /\ arg.opp_history = <<"D", "D", "D">>
    /\ ret = "C"
    /\ opponent_ai = arg

====
